---- MODULE Spec2Model ----
(***************************************************************************)
(* Sovereign Knowledge Substrate (pagi-core KnowledgeStore).               *)
(*                                                                         *)
(* The store is nine sled trees (slots 1..9); slot 9 is written through    *)
(* the SecretVault.  Byte values are modelled as tagged records            *)
(* [kind, p]: the kind is the shape of the bytes (free caller bytes, the   *)
(* JSON of one record type, a vault ciphertext), p the content.            *)
(* Keys are sequences of tokens, so that str::starts_with is the prefix    *)
(* relation on sequences.                                                  *)
(*                                                                         *)
(* Fixed-point numbers: burnout_risk in 1/100, grace_multiplier in 1/10,   *)
(* sleep_hours in 1/10 h.                                                  *)
(***************************************************************************)
EXTENDS Integers, Sequences, FiniteSets, TLC

VARIABLES
    db,         \* db[slot]: the sled tree of the slot, a map key -> bytes
    vault,      \* the master key held by the SecretVault, or NoKey (locked)
    ret,        \* the last completed call of the single-threaded API and its result
    snapPc,     \* position of the get_full_sovereign_state call in progress
    snap,       \* locals of the get_full_sovereign_state call in progress
    ems,        \* locals of the get_effective_mental_state call made by that call
    lastSnap,   \* Some(the snapshot the latest completed call returned) while the trees
                \* are as they were when that call started; None otherwise
    dirty,      \* the trees have changed since the call in progress started
    evals,      \* evals[e]: position and locals of the evaluate_and_persist_tasks
                \* call of thread e
    gw,         \* position and locals of the gateway's execute handler
    hb,         \* position and locals of the gateway's heartbeat tick
    th,         \* the threads that call insert and get on one key, each with its
                \* position and locals, and the history of the writes to the key
    orch        \* the Orchestrator's control state, the control-panel channel and
                \* the history of the control messages accepted and applied

vars == <<db, vault, ret, snapPc, snap, ems, lastSnap, dirty, evals, gw, hb, th, orch>>

----------------------------------------------------------------------------
(* Bounds *)

MaxEntries == 2     \* total number of keys held by the nine trees
MaxEvents == 3      \* number of events held by the Chronos tree
MaxLimit == 2       \* largest limit passed to get_recent_chronos_events
MaxLogged == 1      \* number of events in the Chronos tree beyond which the gateway
                    \* takes no further request
MaxForbidden == 1   \* longest forbidden_actions list of a policy
MaxKeywords == 2    \* longest sensitive_keywords list of a policy
NumNonces == 1      \* distinct nonces the vault may draw
NumRaw == 2         \* distinct free caller byte strings

----------------------------------------------------------------------------
(* Slots and keys *)

SHADOW_SLOT_ID == 9
Slots == 1..9
\* slot ids the byte-level callers pass: the first and the last plain slot, the
\* Shadow slot, and 0 and 10 for the u8 ids below and above 1..9
SlotIds == {0, 1, 8, 9, 10}

\* an out-of-range id sent to the last tree instead of the first
tree_name_last(slot_id) == IF slot_id \in 1..9 THEN slot_id ELSE 9

tree_name(slot_id) == IF slot_id \in 1..9 THEN slot_id ELSE 1

MENTAL_STATE_KEY == <<"mental_state/current">>
BIOMETRIC_STATE_KEY == <<"biometric/current">>
SOMA_STATE_KEY == <<"soma/current">>
ETHOS_POLICY_KEY == <<"ethos/current">>
OIKOS_GOVERNANCE_SUMMARY_KEY == <<"oikos/governance/summary">>
OIKOS_TASK_PREFIX == <<"oikos/tasks/">>
KARDIA_PEOPLE_PREFIX == <<"people/">>

StartsWith(k, prefix) ==
    /\ Len(prefix) <= Len(k)
    /\ SubSeq(k, 1, Len(prefix)) = prefix

GenericKeys == {<<"note">>, <<"anchor/", "grief">>}

----------------------------------------------------------------------------
(* Results *)

Unit == [kind |-> "unit"]
None == [kind |-> "none"]
Some(v) == [kind |-> "some", v |-> v]
Ok(v) == [kind |-> "ok", v |-> v]
Err(e) == [kind |-> "err", e |-> e]

ErrLocked == "Shadow Vault is locked: provide PAGI_SHADOW_KEY to enable Slot 9"
ErrShadowLocked == "Shadow Vault is locked"
ErrDecrypt == "decrypt error"

----------------------------------------------------------------------------
(* Bytes *)

Raw(n) == [kind |-> "raw", p |-> <<n>>]
RawValues == {Raw(n) : n \in 1..NumRaw}

----------------------------------------------------------------------------
(* SecretVault *)

NoKey == "locked"
MasterKeys == {"key1", "key2"}
Nonces == 1..NumNonces

is_unlocked(mk) == mk # NoKey

Ciphertext(mk, nonce, plain) ==
    [kind |-> "ct", p |-> [nonce |-> nonce, mk |-> mk, plain |-> plain]]

\* encrypt_blob: Locked without a key, else nonce || ciphertext || tag
encrypt_blob(mk, nonce, plain) ==
    IF ~is_unlocked(mk) THEN Err("Locked") ELSE Ok(Ciphertext(mk, nonce, plain))

\* decrypt_blob: Locked without a key; the tag authenticates key and content
decrypt_blob(mk, bytes) ==
    IF ~is_unlocked(mk) THEN Err("Locked")
    ELSE IF bytes.kind = "ct" /\ bytes.p.mk = mk THEN Ok(bytes.p.plain)
    ELSE Err("CorruptOrWrongKey")

----------------------------------------------------------------------------
(* EmotionalAnchor (vault.rs) *)

AnchorToBytes(a) == [kind |-> "anchor", p |-> a]

Anchors == {[anchor_type |-> "grief", intensity |-> 80, active |-> TRUE, content |-> 1]}
AnchorValues == {AnchorToBytes(a) : a \in Anchors}

\* decrypt_anchor: decrypt_blob, then parse the plaintext as an EmotionalAnchor
decrypt_anchor(mk, bytes) ==
    LET d == decrypt_blob(mk, bytes) IN
    IF d.kind = "err" THEN d
    ELSE IF d.v.kind = "anchor" THEN Ok(d.v.p)
    ELSE Err("Serialization")

\* decrypt_str: decrypt_blob, then read the plaintext as UTF-8
decrypt_str(mk, bytes) == decrypt_blob(mk, bytes)

----------------------------------------------------------------------------
(* Partitioned store: the byte-level API as functions of the trees *)

EmptyTree == <<>>
EmptyDb == [s \in Slots |-> EmptyTree]

Size(d) == LET RECURSIVE Sum(_)
               Sum(s) == IF s = 0 THEN 0 ELSE Cardinality(DOMAIN d[s]) + Sum(s - 1)
           IN Sum(9)

TreeGet(t, key) == IF key \in DOMAIN t THEN Some(t[key]) ELSE None
TreePut(t, key, value) == [k \in (DOMAIN t) \cup {key} |-> IF k = key THEN value ELSE t[k]]
TreeDel(t, key) == [k \in (DOMAIN t) \ {key} |-> t[k]]

\* get: Ok(Some(bytes)) | Ok(None); slot 9 returns the stored (encrypted) bytes
get(d, slot_id, key) == Ok(TreeGet(d[tree_name(slot_id)], key))

\* the caller's bytes handed to the tree as they are, for every slot
effective_value_plain(mk, slot_id, value, nonce) == Ok(value)

\* the bytes insert hands to the tree: slot 9 goes through encrypt_blob
effective_value(mk, slot_id, value, nonce) ==
    IF slot_id = SHADOW_SLOT_ID THEN encrypt_blob(mk, nonce, value) ELSE Ok(value)

\* an insert that keeps the value of a key that is already present
insert_if_absent(d, mk, slot_id, key, value, nonce) ==
    LET ev == effective_value(mk, slot_id, value, nonce)
        tn == tree_name(slot_id)
    IN IF ev.kind = "err"
       THEN [db |-> d, res |-> Err(ErrLocked)]
       ELSE [db |-> IF key \in DOMAIN d[tn] THEN d ELSE [d EXCEPT ![tn] = TreePut(@, key, ev.v)],
             res |-> Ok(TreeGet(d[tn], key))]

\* an insert that logs the vault's refusal and goes on to write the caller's bytes
insert_ignoring_lock(d, mk, slot_id, key, value, nonce) ==
    LET ev == effective_value(mk, slot_id, value, nonce)
        tn == tree_name(slot_id)
        bytes == IF ev.kind = "err" THEN value ELSE ev.v
    IN [db |-> [d EXCEPT ![tn] = TreePut(@, key, bytes)],
        res |-> Ok(TreeGet(d[tn], key))]

\* insert: [db |-> trees afterwards, res |-> Ok(previous value) | Err]
insert(d, mk, slot_id, key, value, nonce) ==
    LET ev == effective_value(mk, slot_id, value, nonce)
        tn == tree_name(slot_id)
    IN IF ev.kind = "err"
       THEN [db |-> d, res |-> Err(ErrLocked)]
       ELSE [db |-> [d EXCEPT ![tn] = TreePut(@, key, ev.v)],
             res |-> Ok(TreeGet(d[tn], key))]

\* a remove that clears the whole tree
remove_clearing_tree(d, slot_id, key) ==
    LET tn == tree_name(slot_id) IN
    [db |-> [d EXCEPT ![tn] = EmptyTree], res |-> Ok(TreeGet(d[tn], key))]

\* remove: [db |-> trees afterwards, res |-> Ok(previous value)]
remove(d, slot_id, key) ==
    LET tn == tree_name(slot_id) IN
    [db |-> [d EXCEPT ![tn] = TreeDel(@, key)], res |-> Ok(TreeGet(d[tn], key))]

\* scan_kv: the (key, bytes) pairs of the tree, as a set (order is unspecified)
scan_kv(d, slot_id) ==
    LET t == d[tree_name(slot_id)] IN {<<k, t[k]>> : k \in DOMAIN t}

\* insert_shadow_anchor: insert(9, key, anchor.to_bytes())
insert_shadow_anchor(d, mk, key, anchor, nonce) ==
    LET r == insert(d, mk, SHADOW_SLOT_ID, key, AnchorToBytes(anchor), nonce) IN
    [db |-> r.db, res |-> IF r.res.kind = "err" THEN r.res ELSE Ok(Unit)]

\* a get_shadow_anchor that treats every failure of the vault as "not found"
get_shadow_anchor_or_none(d, mk, key) ==
    LET g == get(d, SHADOW_SLOT_ID, key) IN
    IF g.v = None THEN Ok(None)
    ELSE LET dec == decrypt_anchor(mk, g.v.v) IN
         IF dec.kind = "ok" THEN Ok(Some(dec.v)) ELSE Ok(None)

\* get_shadow_anchor: Ok(None) for an absent key, else the vault's answer
\* with its errors turned into strings
get_shadow_anchor(d, mk, key) ==
    LET g == get(d, SHADOW_SLOT_ID, key) IN
    IF g.v = None THEN Ok(None)
    ELSE LET dec == decrypt_anchor(mk, g.v.v) IN
         IF dec.kind = "ok" THEN Ok(Some(dec.v))
         ELSE IF dec.e = "Locked" THEN Err(ErrShadowLocked)
         ELSE Err(ErrDecrypt)

\* get_shadow_decrypted: the same with decrypt_str
get_shadow_decrypted(d, mk, key) ==
    LET g == get(d, SHADOW_SLOT_ID, key) IN
    IF g.v = None THEN Ok(None)
    ELSE LET dec == decrypt_str(mk, g.v.v) IN
         IF dec.kind = "ok" THEN Ok(Some(dec.v))
         ELSE IF dec.e = "Locked" THEN Err(ErrShadowLocked)
         ELSE Err(ErrDecrypt)

----------------------------------------------------------------------------
(* MentalState, SomaState, BiometricState (shared.rs) *)

Min(a, b) == IF a < b THEN a ELSE b
Max(a, b) == IF a > b THEN a ELSE b

BURNOUT_RISK_INCREMENT == 15
GRACE_MULTIPLIER_OVERRIDE == 16
LEGACY_BURNOUT_INCREMENT == 20
LEGACY_GRACE_MULTIPLIER == 15

MentalDefault == [burnout_risk |-> 0, grace_multiplier |-> 10]
SomaDefault == [sleep_hours |-> 0, readiness_score |-> 100]
BiometricDefault == [sleep_score |-> 100]

\* the states callers store; they include the thresholds and both sides of them
MentalStates ==
    { [burnout_risk |-> 0, grace_multiplier |-> 10],
      [burnout_risk |-> 50, grace_multiplier |-> 12],
      [burnout_risk |-> 90, grace_multiplier |-> 10],
      [burnout_risk |-> 100, grace_multiplier |-> 5] }
SomaStates ==
    { [sleep_hours |-> 80, readiness_score |-> 90],
      [sleep_hours |-> 50, readiness_score |-> 80],
      [sleep_hours |-> 60, readiness_score |-> 49],
      [sleep_hours |-> 60, readiness_score |-> 50] }
\* the states the writers store while a snapshot is assembled
BusyMentalStates == { [burnout_risk |-> 50, grace_multiplier |-> 12] }
BusySomaStates ==
    { [sleep_hours |-> 50, readiness_score |-> 80],
      [sleep_hours |-> 80, readiness_score |-> 90] }
BusyBiometricStates == { [sleep_score |-> 59] }
BiometricStates == { [sleep_score |-> 59], [sleep_score |-> 60] }

MentalToBytes(m) == [kind |-> "mental", p |-> m]
SomaToBytes(s) == [kind |-> "soma", p |-> s]
BiometricToBytes(b) == [kind |-> "biometric", p |-> b]

\* readiness_score < 50 OR sleep_hours < 6.0
needs_biogate_adjustment(soma) == soma.readiness_score < 50 \/ soma.sleep_hours < 60

\* sleep_score < 60
poor_sleep(bio) == bio.sleep_score < 60

\* MentalState::clamp: burnout_risk into [0, 1], grace_multiplier at least 1.0
clamp(m) ==
    [burnout_risk |-> Max(0, Min(100, m.burnout_risk)),
     grace_multiplier |-> Max(10, m.grace_multiplier)]

\* serde_json::from_slice(bytes).unwrap_or_default(), and the default for an absent key
FromBytesOrDefault(g, kind, default) ==
    IF g.v # None /\ g.v.v.kind = kind THEN g.v.v.p ELSE default

get_mental_state(d) == FromBytesOrDefault(get(d, 7, MENTAL_STATE_KEY), "mental", MentalDefault)
get_biometric_state(d) ==
    FromBytesOrDefault(get(d, 8, BIOMETRIC_STATE_KEY), "biometric", BiometricDefault)
get_soma_state(d) == FromBytesOrDefault(get(d, 8, SOMA_STATE_KEY), "soma", SomaDefault)

\* self.insert(..)?; Ok(())
Discard(r) == [db |-> r.db, res |-> IF r.res.kind = "err" THEN r.res ELSE Ok(Unit)]

\* the setters: insert of the JSON of the state under the typed key (slots 7, 8: no nonce used)
set_mental_state(d, mk, state) ==
    Discard(insert(d, mk, 7, MENTAL_STATE_KEY, MentalToBytes(state), 1))
set_biometric_state(d, mk, state) ==
    Discard(insert(d, mk, 8, BIOMETRIC_STATE_KEY, BiometricToBytes(state), 1))
set_soma_state(d, mk, state) ==
    Discard(insert(d, mk, 8, SOMA_STATE_KEY, SomaToBytes(state), 1))

\* a merge that tests the legacy biometric state first
effective_mental_legacy_first(mental, soma, bio) ==
    IF poor_sleep(bio)
    THEN clamp([burnout_risk |-> Min(mental.burnout_risk + LEGACY_BURNOUT_INCREMENT, 100),
                grace_multiplier |-> LEGACY_GRACE_MULTIPLIER])
    ELSE IF needs_biogate_adjustment(soma)
    THEN clamp([burnout_risk |-> Min(mental.burnout_risk + BURNOUT_RISK_INCREMENT, 100),
                grace_multiplier |-> GRACE_MULTIPLIER_OVERRIDE])
    ELSE clamp(mental)

\* a merge that applies the legacy adjustment on top of the BioGate one
effective_mental_both(mental, soma, bio) ==
    LET m1 == IF needs_biogate_adjustment(soma)
              THEN [burnout_risk |-> Min(mental.burnout_risk + BURNOUT_RISK_INCREMENT, 100),
                    grace_multiplier |-> GRACE_MULTIPLIER_OVERRIDE]
              ELSE mental
        m2 == IF poor_sleep(bio)
              THEN [burnout_risk |-> Min(m1.burnout_risk + LEGACY_BURNOUT_INCREMENT, 100),
                    grace_multiplier |-> LEGACY_GRACE_MULTIPLIER]
              ELSE m1
    IN clamp(m2)

\* the merge of get_effective_mental_state, given the three values it reads
\* (`bio` is read, and used, only when the soma state asks for no adjustment)
effective_mental(mental, soma, bio) ==
    IF needs_biogate_adjustment(soma)
    THEN clamp([burnout_risk |-> Min(mental.burnout_risk + BURNOUT_RISK_INCREMENT, 100),
                grace_multiplier |-> GRACE_MULTIPLIER_OVERRIDE])
    ELSE IF poor_sleep(bio)
    THEN clamp([burnout_risk |-> Min(mental.burnout_risk + LEGACY_BURNOUT_INCREMENT, 100),
                grace_multiplier |-> LEGACY_GRACE_MULTIPLIER])
    ELSE clamp(mental)

\* get_effective_mental_state called with no concurrent writer
get_effective_mental_state(d) ==
    effective_mental(get_mental_state(d), get_soma_state(d), get_biometric_state(d))

----------------------------------------------------------------------------
(* Status, Ethos, people, tasks: the other parts of the sovereign state *)

\* get_all_status: one KbStatus per slot 1..9, in slot order
\* a get_all_status over KbType::all(), the eight slots without the Shadow slot
get_all_status_without_shadow(d, mk) ==
    [s \in 1..8 |->
        [slot_id |-> s, connected |-> TRUE, entry_count |-> Cardinality(DOMAIN d[s]),
         error |-> None]]

get_all_status(d, mk) ==
    [s \in Slots |->
        [slot_id |-> s,
         connected |-> TRUE,
         entry_count |-> Cardinality(DOMAIN d[s]),
         error |-> IF s = SHADOW_SLOT_ID /\ ~is_unlocked(mk)
                   THEN Some("LOCKED (no master key)") ELSE None]]

\* get(..).ok().flatten().and_then(from_bytes)
FromBytesOpt(g, kind) ==
    IF g.v # None /\ g.v.v.kind = kind THEN Some(g.v.v.p) ELSE None

get_ethos_philosophical_policy(d) == FromBytesOpt(get(d, 6, ETHOS_POLICY_KEY), "ethos")

\* get_governance_summary: the stored bytes read as UTF-8
get_governance_summary(d) == FromBytesOpt(get(d, 2, OIKOS_GOVERNANCE_SUMMARY_KEY), "text")

\* the records of one kind under a key prefix; unparseable entries are skipped
ScanPrefix(d, slot_id, prefix, kind) ==
    {kv[2].p : kv \in {x \in scan_kv(d, slot_id) : StartsWith(x[1], prefix) /\ x[2].kind = kind}}

list_people(d) == ScanPrefix(d, 7, KARDIA_PEOPLE_PREFIX, "person")

----------------------------------------------------------------------------
(* GovernedTask and TaskGovernor (Oikos, slot 2) *)

\* task ids are numbered in the byte order of their strings
TaskIds == {1, 2}
Difficulties == {"easy", "hard"}
BasePriorities == {80}

\* the tasks callers store: not evaluated yet, effective_priority = base_priority
GovernedTasks ==
    {t \in [task_id : TaskIds, base_priority : BasePriorities, difficulty : Difficulties,
            effective_priority : BasePriorities] : t.effective_priority = t.base_priority}

HardTasks == {t \in GovernedTasks : t.difficulty = "hard"}

TaskToBytes(task) == [kind |-> "task", p |-> task]

\* format!("{}{}", OIKOS_TASK_PREFIX, task_id)
TaskKey(task_id) == OIKOS_TASK_PREFIX \o <<task_id>>

set_governed_task(d, mk, task) ==
    Discard(insert(d, mk, 2, TaskKey(task.task_id), TaskToBytes(task), 1))

get_governed_task(d, task_id) == FromBytesOpt(get(d, 2, TaskKey(task_id)), "task")

remove_governed_task(d, task_id) ==
    LET r == remove(d, 2, TaskKey(task_id)) IN [db |-> r.db, res |-> Ok(r.res.v # None)]

\* a comes before b: by effective_priority descending; sort_by is stable, so
\* without a tie-break equal elements keep the order they came in
PriorityBefore(a, b, by_id) ==
    \/ a.effective_priority > b.effective_priority
    \/ by_id /\ a.effective_priority = b.effective_priority /\ a.task_id < b.task_id

RECURSIVE SortTasks(_, _)
SortTasks(tasks, by_id) ==
    IF tasks = <<>> THEN <<>>
    ELSE LET h == Head(tasks)
             rest == SortTasks(Tail(tasks), by_id)
             k == Cardinality({j \in 1..Len(rest) : PriorityBefore(rest[j], h, by_id)})
         IN SubSeq(rest, 1, k) \o <<h>> \o SubSeq(rest, k + 1, Len(rest))

\* the parseable tasks under oikos/tasks/, in the key order of the scan
RECURSIVE TasksInKeyOrder(_, _)
TasksInKeyOrder(d, keys) ==
    IF keys = {} THEN <<>>
    ELSE LET k == CHOOSE x \in keys : \A y \in keys : x[2] <= y[2]
         IN <<d[2][k].p>> \o TasksInKeyOrder(d, keys \ {k})

\* list_governed_tasks: scan, filter by prefix, parse, sort by effective_priority descending
list_governed_tasks(d) ==
    SortTasks(TasksInKeyOrder(d, {kv[1] : kv \in {x \in scan_kv(d, 2) :
                                     StartsWith(x[1], OIKOS_TASK_PREFIX) /\ x[2].kind = "task"}}),
              FALSE)

\* TaskGovernor::new(soma, mental, ethos)
TaskGovernor(soma, mental, ethos) == [soma |-> soma, mental |-> mental, ethos |-> ethos]

\* the multiplier, in 1/10: a hard task is scaled down by the grace the
\* governor captured, an easy task is left as it is
Multiplier(task, governor) ==
    IF task.difficulty = "hard" THEN 100 \div governor.mental.grace_multiplier ELSE 10

\* effective_priority = base_priority * multiplier
evaluate(governor, task) ==
    [task EXCEPT !.effective_priority = (task.base_priority * Multiplier(task, governor)) \div 10]

\* evaluate_batch: every task evaluated, sorted by effective_priority
\* descending, ties by task id ascending
evaluate_batch(governor, tasks) ==
    SortTasks([i \in 1..Len(tasks) |-> evaluate(governor, tasks[i])], TRUE)

\* governance_summary(&tasks): a text about the captured state and the tasks listed
governance_summary(governor, tasks) ==
    [kind |-> "text", p |-> [mental |-> governor.mental, tasks |-> Len(tasks)]]

----------------------------------------------------------------------------
(* EventRecord and the Chronos stream (slot 4) *)

\* agent ids, one character per token: "" (single-agent callers), "default",
\* "A", and "A1", of which "A" is a string prefix
AgentIds == {<<>>, <<"default">>, <<"A">>, <<"A", "1">>}

\* if agent_id.is_empty() { "default" } else { agent_id }
AgentPrefix(agent_id) == IF agent_id = <<>> THEN <<"default">> ELSE agent_id

Timestamps == {100, 200}
Uuids == {"uuid1", "uuid2"}
Reflections == {"ran a skill"}

EventRecords == [timestamp_ms : Timestamps, reflection : Reflections]
EventToBytes(event) == [kind |-> "event", p |-> event]

\* the decimal digits of a timestamp, as one token
Digits(timestamp_ms) == IF timestamp_ms = 100 THEN "100" ELSE "200"

\* format!("event/{}/{}_{}", agent_prefix, event.timestamp_ms, Uuid::new_v4().simple())
EventKey(agent_id, timestamp_ms, uuid) ==
    <<"event/">> \o AgentPrefix(agent_id) \o <<"/", Digits(timestamp_ms), uuid>>

\* byte order of the tokens that occur in the keys of the scanned trees
\* ('/' < digits < upper case < lower case)
TokenRank(t) ==
    CASE t = "/" -> 1
      [] t = "1" -> 2
      [] t = "100" -> 3
      [] t = "200" -> 4
      [] t = "A" -> 5
      [] t = "anchor/" -> 6
      [] t = "default" -> 7
      [] t = "event/" -> 8
      [] t = "grief" -> 9
      [] t = "note" -> 10
      [] t = "uuid1" -> 11
      [] t = "uuid2" -> 12
      [] t = "work" -> 13

\* lexicographic order of two keys
RECURSIVE KeyBefore(_, _)
KeyBefore(k1, k2) ==
    IF k1 = <<>> THEN k2 # <<>>
    ELSE IF k2 = <<>> THEN FALSE
    ELSE IF TokenRank(Head(k1)) # TokenRank(Head(k2))
         THEN TokenRank(Head(k1)) < TokenRank(Head(k2))
    ELSE KeyBefore(Tail(k1), Tail(k2))

\* the keys of a set in the order of the scan
RECURSIVE InKeyOrder(_)
InKeyOrder(keys) ==
    IF keys = {} THEN <<>>
    ELSE LET k == CHOOSE x \in keys : \A y \in keys \ {x} : KeyBefore(x, y)
         IN <<k>> \o InKeyOrder(keys \ {k})

\* events.sort_by(|a, b| b.0.cmp(&a.0)): stable, newest first
RECURSIVE SortEvents(_)
SortEvents(events) ==
    IF events = <<>> THEN <<>>
    ELSE LET h == Head(events)
             rest == SortEvents(Tail(events))
             k == Cardinality({j \in 1..Len(rest) : rest[j].timestamp_ms > h.timestamp_ms})
         IN SubSeq(rest, 1, k) \o <<h>> \o SubSeq(rest, k + 1, Len(rest))

\* into_iter().take(limit)
Take(seq, limit) == SubSeq(seq, 1, Min(limit, Len(seq)))

\* append_chronos_event: insert of the event under a key with a fresh uuid
append_chronos_event(d, mk, agent_id, event, uuid) ==
    Discard(insert(d, mk, 4, EventKey(agent_id, event.timestamp_ms, uuid), EventToBytes(event), 1))

\* the keys get_recent_chronos_events keeps: those that start with
\* format!("event/{}", agent_prefix) and hold a parseable event
ChronosKeysFor(d, agent_id) ==
    {kv[1] : kv \in {x \in scan_kv(d, 4) :
                        /\ StartsWith(x[1], <<"event/">> \o AgentPrefix(agent_id))
                        /\ x[2].kind = "event"}}

get_recent_take_before_sort(d, agent_id, limit) ==
    LET keys == InKeyOrder(ChronosKeysFor(d, agent_id))
    IN SortEvents(Take([i \in 1..Len(keys) |-> d[4][keys[i]].p], limit))

\* get_recent_chronos_events: scan, filter, parse, sort newest first, take(limit)
get_recent_chronos_events(d, agent_id, limit) ==
    LET keys == InKeyOrder(ChronosKeysFor(d, agent_id))
    IN Take(SortEvents([i \in 1..Len(keys) |-> d[4][keys[i]].p]), limit)

----------------------------------------------------------------------------
(* Compassionate routing: the active anchors of the Shadow slot *)

\* intensity in hundredths; 50 is the threshold itself
LoadAnchors ==
    {a \in [anchor_type : {"grief", "work"}, intensity : {50, 80}, active : BOOLEAN,
            content : {1}] : a.active \/ a.intensity = 80}

LoadKeys == {<<"anchor/", "grief">>, <<"anchor/", "work">>, <<"note">>}

\* the loop of get_active_shadow_anchors over the keys in tree order: keys
\* outside anchor/ and entries that fail to decrypt or parse are skipped
RECURSIVE ActiveAnchors(_, _, _)
ActiveAnchors(tree, mk, keys) ==
    IF keys = <<>> THEN <<>>
    ELSE LET key == Head(keys)
             rest == ActiveAnchors(tree, mk, Tail(keys))
             anchor == decrypt_anchor(mk, tree[key])
         IN IF ~StartsWith(key, <<"anchor/">>) THEN rest
            ELSE IF anchor.kind = "ok" /\ anchor.v.active THEN <<<<key, anchor.v>>>> \o rest
            ELSE rest

\* get_active_shadow_anchors: nothing when the vault is locked
get_active_shadow_anchors(d, mk) ==
    IF ~is_unlocked(mk) THEN <<>>
    ELSE ActiveAnchors(d[SHADOW_SLOT_ID], mk, InKeyOrder(DOMAIN d[SHADOW_SLOT_ID]))

\* anchors.iter().map(|(_, a)| a.intensity).fold(0.0, f32::max)
RECURSIVE MaxIntensity(_)
MaxIntensity(anchors) ==
    IF anchors = <<>> THEN 0 ELSE Max(MaxIntensity(Tail(anchors)), Head(anchors)[2].intensity)

\* the types of the anchors with intensity > 0.5, in tree order
RECURSIVE HeavyTypes(_, _)
HeavyTypes(anchors, threshold) ==
    IF anchors = <<>> THEN <<>>
    ELSE IF Head(anchors)[2].intensity > threshold
         THEN <<Head(anchors)[2].anchor_type>> \o HeavyTypes(Tail(anchors), threshold)
    ELSE HeavyTypes(Tail(anchors), threshold)

\* format!("The user is currently handling heavy personal issues (detected anchors: {}). ...")
Instruction(anchor_types) ==
    [text |-> "The user is currently handling heavy personal issues", detected |-> anchor_types]

check_mental_load_from_half(d, mk) ==
    LET anchors == get_active_shadow_anchors(d, mk)
    IN IF anchors = <<>> THEN None
       ELSE IF MaxIntensity(anchors) >= 50 THEN Some(Instruction(HeavyTypes(anchors, 49)))
       ELSE None

check_mental_load_quoting(d, mk) ==
    LET anchors == get_active_shadow_anchors(d, mk)
    IN IF anchors = <<>> THEN None
       ELSE IF MaxIntensity(anchors) > 50
            THEN Some([text |-> Instruction(<<>>).text,
                       detected |-> [i \in 1..Len(anchors) |-> anchors[i][2].content]])
       ELSE None

\* check_mental_load
check_mental_load(d, mk) ==
    LET anchors == get_active_shadow_anchors(d, mk)
    IN IF anchors = <<>> THEN None
       ELSE IF MaxIntensity(anchors) > 50 THEN Some(Instruction(HeavyTypes(anchors, 50)))
       ELSE None

----------------------------------------------------------------------------
(* PolicyRecord (Ethos, slot 6) *)

ETHOS_DEFAULT_POLICY_KEY == <<"policy/default">>

\* strings are sequences of characters
to_lowercase_char(ch) ==
    CASE ch = "A" -> "a"
      [] ch = "K" -> "k"
      [] ch = "R" -> "r"
      [] OTHER -> ch

to_lowercase(str) == [i \in 1..Len(str) |-> to_lowercase_char(str[i])]

\* str::contains: pat occurs in str as a substring
contains(str, pat) ==
    \E i \in 0..(Len(str) - Len(pat)) : SubSeq(str, i + 1, i + Len(pat)) = pat

\* the entries of forbidden_actions and sensitive_keywords
Patterns == {<<"K">>, <<"k", "a">>}

ListsUpTo(set, n) == UNION {[1..m -> set] : m \in 0..n}

PolicyRecords ==
    [forbidden_actions : ListsUpTo(Patterns, MaxForbidden),
     sensitive_keywords : ListsUpTo(Patterns, MaxKeywords),
     approval_required : BOOLEAN]

PolicyToBytes(policy) == [kind |-> "policy", p |-> policy]

\* AlignmentResult
Pass == [kind |-> "pass"]
Fail(reason) == [kind |-> "fail", reason |-> reason]

\* format!("Skill '{}' is forbidden by policy", skill_name)
ForbiddenReason(skill_name) == [text |-> "Skill is forbidden by policy", names |-> skill_name]
\* format!("Content contains sensitive keyword '{}'; policy requires approval", kw)
KeywordReason(kw) ==
    [text |-> "Content contains sensitive keyword; policy requires approval", names |-> kw]

\* for forbidden in &self.forbidden_actions { if skill_lower.contains(..) { return Fail } }
RECURSIVE ForbiddenLoop(_, _, _)
ForbiddenLoop(forbidden_actions, skill_lower, skill_name) ==
    IF forbidden_actions = <<>> THEN Pass
    ELSE IF contains(skill_lower, to_lowercase(Head(forbidden_actions)))
         THEN Fail(ForbiddenReason(skill_name))
    ELSE ForbiddenLoop(Tail(forbidden_actions), skill_lower, skill_name)

\* for kw in &self.sensitive_keywords { if content_lower.contains(..) && approval_required { return Fail } }
RECURSIVE KeywordLoop(_, _, _)
KeywordLoop(sensitive_keywords, content_lower, approval_required) ==
    IF sensitive_keywords = <<>> THEN Pass
    ELSE IF contains(content_lower, to_lowercase(Head(sensitive_keywords))) /\ approval_required
         THEN Fail(KeywordReason(Head(sensitive_keywords)))
    ELSE KeywordLoop(Tail(sensitive_keywords), content_lower, approval_required)

allows_keywords_first(policy, skill_name, content_for_scan) ==
    LET keyword == KeywordLoop(policy.sensitive_keywords, to_lowercase(content_for_scan),
                               policy.approval_required)
    IN IF keyword # Pass THEN keyword
       ELSE ForbiddenLoop(policy.forbidden_actions, to_lowercase(skill_name), skill_name)

\* PolicyRecord::allows
allows(policy, skill_name, content_for_scan) ==
    LET forbidden == ForbiddenLoop(policy.forbidden_actions, to_lowercase(skill_name), skill_name)
    IN IF forbidden # Pass THEN forbidden
       ELSE KeywordLoop(policy.sensitive_keywords, to_lowercase(content_for_scan),
                        policy.approval_required)

get_ethos_policy(d) == FromBytesOpt(get(d, 6, ETHOS_DEFAULT_POLICY_KEY), "policy")

set_ethos_policy(d, mk, policy) ==
    Discard(insert(d, mk, 6, ETHOS_DEFAULT_POLICY_KEY, PolicyToBytes(policy), 1))

----------------------------------------------------------------------------
(* RelationRecord (Kardia, slot 7) *)

UserIds == {"user1", "user2"}

\* trust_score is an f32, here in hundredths; the field is public and
\* deserialised without a check, so a record can carry any value
TrustScores == {-50, 50, 150}

RelationRecords == [user_id : UserIds, trust_score : TrustScores]

\* RelationRecord::new: trust_score 0.5
NewRelationRecord(user_id) == [user_id |-> user_id, trust_score |-> 50]

Clamp(x, lo, hi) == IF x < lo THEN lo ELSE IF x > hi THEN hi ELSE x

\* self.trust_score = score.clamp(0.0, 1.0)
with_trust_score(record, score) == [record EXCEPT !.trust_score = Clamp(score, 0, 100)]

RelationToBytes(record) == [kind |-> "relation", p |-> record]

\* format!("relation/{}/{}", owner, target_id), an empty owner being "default"
kardia_relation_key(owner_agent_id, target_id) ==
    <<"relation/">> \o AgentPrefix(owner_agent_id) \o <<"/", target_id>>

get_kardia_relation(d, owner_agent_id, target_id) ==
    FromBytesOpt(get(d, 7, kardia_relation_key(owner_agent_id, target_id)), "relation")

\* set_kardia_relation: the record is stored as passed
set_kardia_relation(d, mk, owner_agent_id, record) ==
    Discard(insert(d, mk, 7, kardia_relation_key(owner_agent_id, record.user_id),
                   RelationToBytes(record), 1))

----------------------------------------------------------------------------
(* Initial state: a store opened on a fresh path, with or without a master key *)

NoArg == [kind |-> "noarg"]
Call(op, slot_id, key, value, res) ==
    [op |-> op, slot |-> slot_id, key |-> key, value |-> value, res |-> res]

\* the locals of get_full_sovereign_state and of its get_effective_mental_state
\* before they are assigned
NoSnap ==
    [kb_statuses |-> <<>>, soma |-> SomaDefault, bio_gate_active |-> FALSE, ethos |-> None,
     mental |-> MentalDefault, people |-> {}, governance_summary |-> None,
     governed_tasks |-> <<>>, shadow_unlocked |-> FALSE]
NoEms == [mental |-> MentalDefault, soma |-> SomaDefault]

\* the threads that call evaluate_and_persist_tasks, and the locals of a call
\* before they are assigned
Evaluators == {1, 2}
NoEval ==
    [pc |-> "idle", soma |-> SomaDefault, mental |-> MentalDefault, ems_soma |-> SomaDefault,
     ethos |-> None, tasks |-> <<>>, evaluated |-> <<>>, i |-> 0, replaced |-> None]

\* the gateway's execute handler before a request arrives
NoGoal == [kind |-> "none", name |-> <<>>, payload |-> None]
NoRequest ==
    [pc |-> "idle", agent_id |-> <<>>, goal |-> NoGoal, verdict |-> None,
     dispatched |-> FALSE, logged |-> None, response |-> None]

\* the heartbeat between two ticks
NoTick == [pc |-> "idle", agents |-> {}, agent_id |-> "", inbox_key |-> <<>>, msg |-> None]

\* the threads of the callers of insert and get, and a thread between two calls
Threads == {1, 2, 3}
IdleThread == [pc |-> "idle", value |-> NoArg, floor |-> 0, idx |-> 0, res |-> NoArg]
NoThreads == [threads |-> [t \in Threads |-> IdleThread], applied |-> <<>>, returned |-> 0]

\* Orchestrator::new / with_blueprint: every KB active, skills enabled, weights
\* (0.7, 0.3) in tenths; the control-panel channel is empty
ALL_KBS_ACTIVE == 255
NewOrchestrator ==
    [active_kbs |-> ALL_KBS_ACTIVE, skills_enabled |-> TRUE, memory_weights |-> <<7, 3>>,
     channel |-> <<>>, accepted |-> <<>>, applied |-> <<>>]

Init ==
    /\ db = EmptyDb
    /\ vault \in MasterKeys \cup {NoKey}
    /\ ret = Call("open", 0, <<>>, NoArg, Ok(None))
    /\ snapPc = "idle"
    /\ snap = NoSnap
    /\ ems = NoEms
    /\ lastSnap = None
    /\ dirty = FALSE
    /\ evals = [e \in Evaluators |-> NoEval]
    /\ gw = NoRequest
    /\ hb = NoTick
    /\ th = NoThreads
    /\ orch = NewOrchestrator

snapVars == <<snapPc, snap, ems>>
evalVars == <<evals>>
gwVars == <<gw, hb, th, orch>>

\* the effect of a completed call of the API on the trees: a change of the
\* trees invalidates what a snapshot call relies on
Writes(newDb) ==
    /\ db' = newDb
    /\ IF newDb # db
       THEN lastSnap' = None /\ dirty' = (snapPc # "idle")
       ELSE UNCHANGED <<lastSnap, dirty>>

----------------------------------------------------------------------------
(* Byte-level API *)

CallerValues == RawValues

\* the vault draws a nonce only for a write to slot 9
NoncesFor(slot_id) == IF slot_id = SHADOW_SLOT_ID THEN Nonces ELSE {1}

\* the byte-level calls, for the slot ids a group of callers passes
Insert(ids) ==
    \E slot_id \in ids, key \in GenericKeys, value \in CallerValues :
      \E nonce \in NoncesFor(slot_id) :
        LET r == insert(db, vault, slot_id, key, value, nonce) IN
        /\ Size(r.db) <= MaxEntries
        /\ Writes(r.db)
        /\ ret' = Call("insert", slot_id, key, value, r.res)
        /\ UNCHANGED <<vault, snapVars, evalVars, gwVars>>

Get(ids) ==
    \E slot_id \in ids, key \in GenericKeys :
        /\ ret' = Call("get", slot_id, key, NoArg, get(db, slot_id, key))
        /\ UNCHANGED <<db, vault, snapVars, evalVars, gwVars, lastSnap, dirty>>

Remove(ids) ==
    \E slot_id \in ids, key \in GenericKeys :
        LET r == remove(db, slot_id, key) IN
        /\ Writes(r.db)
        /\ ret' = Call("remove", slot_id, key, NoArg, r.res)
        /\ UNCHANGED <<vault, snapVars, evalVars, gwVars>>

ScanKv(ids) ==
    \E slot_id \in ids :
        /\ ret' = Call("scan_kv", slot_id, <<>>, NoArg, Ok(scan_kv(db, slot_id)))
        /\ UNCHANGED <<db, vault, snapVars, evalVars, gwVars, lastSnap, dirty>>

InsertShadowAnchorOf(keys, anchors, nonces) ==
    \E key \in keys, anchor \in anchors, nonce \in nonces :
        LET r == insert_shadow_anchor(db, vault, key, anchor, nonce) IN
        /\ Size(r.db) <= MaxEntries
        /\ Writes(r.db)
        /\ ret' = Call("insert_shadow_anchor", SHADOW_SLOT_ID, key, AnchorToBytes(anchor), r.res)
        /\ UNCHANGED <<vault, snapVars, evalVars, gwVars>>

InsertShadowAnchor == InsertShadowAnchorOf(GenericKeys, Anchors, Nonces)

GetShadowAnchor ==
    \E key \in GenericKeys :
        /\ ret' = Call("get_shadow_anchor", SHADOW_SLOT_ID, key, NoArg,
                       get_shadow_anchor(db, vault, key))
        /\ UNCHANGED <<db, vault, snapVars, evalVars, gwVars, lastSnap, dirty>>

GetShadowDecrypted ==
    \E key \in GenericKeys :
        /\ ret' = Call("get_shadow_decrypted", SHADOW_SLOT_ID, key, NoArg,
                       get_shadow_decrypted(db, vault, key))
        /\ UNCHANGED <<db, vault, snapVars, evalVars, gwVars, lastSnap, dirty>>

\* the process restarts: open_with_key on the same path, with another master key or none
Reopen ==
    /\ snapPc = "idle"
    /\ \E mk \in MasterKeys \cup {NoKey} :
        /\ vault' = mk
        /\ ret' = Call("open", 0, <<>>, NoArg, Ok(None))
    /\ lastSnap' = None
    /\ UNCHANGED <<db, snapVars, evalVars, gwVars, dirty>>

\* Callers of the byte-level API on every kind of slot id; the vault is as opened
Next ==
    \/ Insert(SlotIds)
    \/ Get(SlotIds)
    \/ Remove(SlotIds)
    \/ ScanKv(SlotIds)

Spec == Init /\ [][Next]_vars

\* Callers of the Shadow slot, across restarts with and without the master key
ShadowIds == {SHADOW_SLOT_ID}

NextVault ==
    \/ Insert(ShadowIds)
    \/ Get(ShadowIds)
    \/ Remove(ShadowIds)
    \/ ScanKv(ShadowIds)
    \/ InsertShadowAnchor
    \/ GetShadowAnchor
    \/ GetShadowDecrypted
    \/ Reopen

SpecVault == Init /\ [][NextVault]_vars

----------------------------------------------------------------------------
(* Typed Kardia / Soma API and the sovereign snapshot *)

SetMentalState(states) ==
    \E state \in states :
        LET r == set_mental_state(db, vault, state) IN
        /\ Writes(r.db)
        /\ ret' = Call("set_mental_state", 7, MENTAL_STATE_KEY, MentalToBytes(state), r.res)
        /\ UNCHANGED <<vault, snapVars, evalVars, gwVars>>

SetSomaState(states) ==
    \E state \in states :
        LET r == set_soma_state(db, vault, state) IN
        /\ Writes(r.db)
        /\ ret' = Call("set_soma_state", 8, SOMA_STATE_KEY, SomaToBytes(state), r.res)
        /\ UNCHANGED <<vault, snapVars, evalVars, gwVars>>

SetBiometricState(states) ==
    \E state \in states :
        LET r == set_biometric_state(db, vault, state) IN
        /\ Writes(r.db)
        /\ ret' = Call("set_biometric_state", 8, BIOMETRIC_STATE_KEY, BiometricToBytes(state), r.res)
        /\ UNCHANGED <<vault, snapVars, evalVars, gwVars>>

GetEffectiveMentalState ==
    /\ ret' = Call("get_effective_mental_state", 7, MENTAL_STATE_KEY, NoArg,
                   Ok(get_effective_mental_state(db)))
    /\ UNCHANGED <<db, vault, snapVars, evalVars, gwVars, lastSnap, dirty>>

\* get_full_sovereign_state runs in a thread of its own; each of its reads of
\* the store is one step, in the order of the code
SnapStep(from, to, newSnap) ==
    /\ snapPc = from
    /\ snapPc' = to
    /\ snap' = newSnap
    /\ UNCHANGED <<db, vault, ret, lastSnap, evalVars, gwVars>>

\* let kb_statuses = self.get_all_status();
SnapStatus ==
    /\ SnapStep("idle", "soma", [NoSnap EXCEPT !.kb_statuses = get_all_status(db, vault)])
    /\ dirty' = FALSE
    /\ UNCHANGED ems

\* let soma = self.get_soma_state(); let bio_gate_active = soma.needs_biogate_adjustment();
SnapSoma ==
    LET soma == get_soma_state(db) IN
    /\ SnapStep("soma", "ethos",
                [snap EXCEPT !.soma = soma, !.bio_gate_active = needs_biogate_adjustment(soma)])
    /\ UNCHANGED <<ems, dirty>>

\* let ethos = self.get_ethos_philosophical_policy();
SnapEthos ==
    /\ SnapStep("ethos", "ems_mental", [snap EXCEPT !.ethos = get_ethos_philosophical_policy(db)])
    /\ UNCHANGED <<ems, dirty>>

\* a get_mental_state that stores the state it read, clamped, back under its key
SnapEmsMentalStoring ==
    /\ snapPc = "ems_mental"
    /\ snapPc' = "ems_soma"
    /\ ems' = [ems EXCEPT !.mental = get_mental_state(db)]
    /\ db' = set_mental_state(db, vault, clamp(get_mental_state(db))).db
    /\ UNCHANGED <<vault, ret, snap, lastSnap, dirty, evalVars, gwVars>>

\* get_effective_mental_state: let mut mental = self.get_mental_state(..);
SnapEmsMental ==
    /\ SnapStep("ems_mental", "ems_soma", snap)
    /\ ems' = [ems EXCEPT !.mental = get_mental_state(db)]
    /\ UNCHANGED dirty

\* get_effective_mental_state: let soma = self.get_soma_state(); with the
\* BioGate branch when the soma state read here asks for it
SnapEmsSoma ==
    LET soma == get_soma_state(db) IN
    /\ IF needs_biogate_adjustment(soma)
       THEN SnapStep("ems_soma", "people",
                     [snap EXCEPT !.mental = effective_mental(ems.mental, soma, BiometricDefault)])
       ELSE SnapStep("ems_soma", "ems_bio", snap)
    /\ ems' = [ems EXCEPT !.soma = soma]
    /\ UNCHANGED dirty

\* get_effective_mental_state: let bio = self.get_biometric_state(); legacy branch
SnapEmsBio ==
    /\ SnapStep("ems_bio", "people",
                [snap EXCEPT !.mental = effective_mental(ems.mental, ems.soma,
                                                         get_biometric_state(db))])
    /\ UNCHANGED <<ems, dirty>>

\* let people = self.list_people().unwrap_or_default();
SnapPeople ==
    /\ SnapStep("people", "summary", [snap EXCEPT !.people = list_people(db)])
    /\ UNCHANGED <<ems, dirty>>

\* the two reads of slot 2, as functions of the trees and of the locals so far
snap_summary(d, sn) == [sn EXCEPT !.governance_summary = get_governance_summary(d)]
snap_tasks(d, sn) == [sn EXCEPT !.governed_tasks = list_governed_tasks(d)]

\* let governance_summary = self.get_governance_summary();
SnapSummary ==
    /\ SnapStep("summary", "tasks", snap_summary(db, snap))
    /\ UNCHANGED <<ems, dirty>>

\* let governed_tasks = self.list_governed_tasks().unwrap_or_default();
SnapTasks ==
    /\ SnapStep("tasks", "return", snap_tasks(db, snap))
    /\ UNCHANGED <<ems, dirty>>

\* the snapshot the call in progress returns
Returned == [snap EXCEPT !.shadow_unlocked = is_unlocked(vault)]

\* let shadow_unlocked = self.is_shadow_unlocked(); SovereignState { .. }
SnapReturn ==
    /\ snapPc = "return"
    /\ snapPc' = "idle"
    /\ snap' = NoSnap
    /\ ems' = NoEms
    /\ lastSnap' = IF dirty THEN None ELSE Some(Returned)
    /\ dirty' = FALSE
    /\ UNCHANGED <<db, vault, ret, evalVars, gwVars>>

\* One thread of setters and readers of the Kardia and Soma state
NextMental ==
    \/ SetMentalState(MentalStates)
    \/ SetSomaState(SomaStates)
    \/ SetBiometricState(BiometricStates)
    \/ GetEffectiveMentalState

SpecMental == Init /\ [][NextMental]_vars

\* A thread of setters running alongside a thread of get_full_sovereign_state calls
NextSovereign ==
    \/ SetMentalState(BusyMentalStates)
    \/ SetSomaState(BusySomaStates)
    \/ SetBiometricState(BusyBiometricStates)
    \/ SnapStatus
    \/ SnapSoma
    \/ SnapEthos
    \/ SnapEmsMental
    \/ SnapEmsSoma
    \/ SnapEmsBio
    \/ SnapPeople
    \/ SnapSummary
    \/ SnapTasks
    \/ SnapReturn

SpecSovereign == Init /\ [][NextSovereign]_vars

----------------------------------------------------------------------------
(* Task governance: evaluate_and_persist_tasks, one store access per step *)

\* the governor a call has captured once its reads are done
Governor(ev) == TaskGovernor(ev.soma, ev.mental, ev.ethos)

\* create_task_governor: let soma = self.get_soma_state();
governor_soma(d, ev) ==
    [db |-> d, ev |-> [NoEval EXCEPT !.pc = "gov_mental", !.soma = get_soma_state(d)]]

\* get_effective_mental_state: let mut mental = self.get_mental_state(..);
governor_mental(d, ev) ==
    [db |-> d, ev |-> [ev EXCEPT !.pc = "gov_ems_soma", !.mental = get_mental_state(d)]]

\* get_effective_mental_state: let soma = self.get_soma_state(); BioGate branch
governor_ems_soma(d, ev) ==
    LET soma == get_soma_state(d) IN
    [db |-> d,
     ev |-> IF needs_biogate_adjustment(soma)
            THEN [ev EXCEPT !.pc = "gov_ethos", !.ems_soma = soma,
                            !.mental = effective_mental(ev.mental, soma, BiometricDefault)]
            ELSE [ev EXCEPT !.pc = "gov_ems_bio", !.ems_soma = soma]]

\* get_effective_mental_state: let bio = self.get_biometric_state(); legacy branch
governor_ems_bio(d, ev) ==
    [db |-> d,
     ev |-> [ev EXCEPT !.pc = "gov_ethos",
                       !.mental = effective_mental(ev.mental, ev.ems_soma, get_biometric_state(d))]]

\* create_task_governor: let ethos = self.get_ethos_philosophical_policy();
governor_ethos(d, ev) ==
    [db |-> d, ev |-> [ev EXCEPT !.pc = "list", !.ethos = get_ethos_philosophical_policy(d)]]

\* let tasks = self.list_governed_tasks()?; let evaluated = governor.evaluate_batch(&tasks);
list_and_evaluate(d, ev) ==
    LET tasks == list_governed_tasks(d) IN
    [db |-> d,
     ev |-> [ev EXCEPT !.pc = IF tasks = <<>> THEN "summary" ELSE "write",
                       !.tasks = tasks,
                       !.evaluated = evaluate_batch(Governor(ev), tasks),
                       !.i = 1]]

\* a loop that writes back the tasks as they were listed
persist_task_as_listed(d, mk, ev) ==
    [db |-> set_governed_task(d, mk, ev.tasks[ev.i]).db,
     ev |-> [ev EXCEPT !.pc = IF ev.i = Len(ev.evaluated) THEN "summary" ELSE "write",
                       !.i = ev.i + 1]]

\* a loop that is left after its first iteration
persist_task_once(d, mk, ev) ==
    [db |-> set_governed_task(d, mk, ev.evaluated[ev.i]).db,
     ev |-> [ev EXCEPT !.pc = "summary", !.i = ev.i + 1]]

\* for task in &evaluated { self.set_governed_task(task)?; }: one iteration
persist_task(d, mk, ev) ==
    [db |-> set_governed_task(d, mk, ev.evaluated[ev.i]).db,
     ev |-> [ev EXCEPT !.pc = IF ev.i = Len(ev.evaluated) THEN "summary" ELSE "write",
                       !.i = ev.i + 1]]

\* a summary written to slot 1 instead of the Oikos slot
persist_summary_in_slot_1(d, mk, ev) ==
    LET r == insert(d, mk, 1, OIKOS_GOVERNANCE_SUMMARY_KEY,
                    governance_summary(Governor(ev), ev.tasks), 1)
    IN [db |-> r.db, ev |-> [ev EXCEPT !.pc = "done", !.replaced = r.res.v]]

\* self.insert(slot_id, OIKOS_GOVERNANCE_SUMMARY_KEY, summary.as_bytes())?; Ok(evaluated)
\* (`replaced` keeps what insert returned: the bytes the summary replaced)
persist_summary(d, mk, ev) ==
    LET r == insert(d, mk, 2, OIKOS_GOVERNANCE_SUMMARY_KEY,
                    governance_summary(Governor(ev), ev.tasks), 1)
    IN [db |-> r.db, ev |-> [ev EXCEPT !.pc = "done", !.replaced = r.res.v]]

GovernorPcs == {"idle", "gov_mental", "gov_ems_soma", "gov_ems_bio", "gov_ethos"}

\* the next step of a call that has not returned
eval_step(d, mk, ev) ==
    CASE ev.pc = "idle" -> governor_soma(d, ev)
      [] ev.pc = "gov_mental" -> governor_mental(d, ev)
      [] ev.pc = "gov_ems_soma" -> governor_ems_soma(d, ev)
      [] ev.pc = "gov_ems_bio" -> governor_ems_bio(d, ev)
      [] ev.pc = "gov_ethos" -> governor_ethos(d, ev)
      [] ev.pc = "list" -> list_and_evaluate(d, ev)
      [] ev.pc = "write" -> persist_task(d, mk, ev)
      [] ev.pc = "summary" -> persist_summary(d, mk, ev)

\* thread e takes the next step of its call, which is one at a position in pcs
EvalStep(e, pcs) ==
    /\ evals[e].pc \in pcs
    /\ LET r == eval_step(db, vault, evals[e]) IN
       /\ Writes(r.db)
       /\ evals' = [evals EXCEPT ![e] = r.ev]
       /\ ret' = IF r.ev.pc = "done"
                 THEN Call("evaluate_and_persist_tasks", 2, <<>>, NoArg, Ok(r.ev.evaluated))
                 ELSE ret
    /\ UNCHANGED <<vault, snapVars, gwVars>>

EvalGovernor(e) == EvalStep(e, GovernorPcs)
EvalList(e) == EvalStep(e, {"list"})
EvalPersistTask(e) == EvalStep(e, {"write"})
EvalPersistSummary(e) == EvalStep(e, {"summary"})

\* the thread is free for its next call; what a returned call listed and
\* wrote is kept while a snapshot is being assembled
EvalForget(e) ==
    /\ evals[e].pc = "done"
    /\ snapPc = "idle"
    /\ evals' = [evals EXCEPT ![e] = NoEval]
    /\ UNCHANGED <<db, vault, ret, snapVars, gwVars, lastSnap, dirty>>

\* no evaluation and no snapshot is in progress
Quiet == snapPc = "idle" /\ \A e \in Evaluators : evals[e].pc = "idle"

SetGovernedTask(tasks) ==
    \E task \in tasks :
        LET r == set_governed_task(db, vault, task) IN
        /\ Writes(r.db)
        /\ ret' = Call("set_governed_task", 2, TaskKey(task.task_id), TaskToBytes(task), r.res)
        /\ UNCHANGED <<vault, snapVars, evalVars, gwVars>>

GetGovernedTask ==
    \E task_id \in TaskIds :
        /\ ret' = Call("get_governed_task", 2, TaskKey(task_id), NoArg,
                       Ok(get_governed_task(db, task_id)))
        /\ UNCHANGED <<db, vault, snapVars, evalVars, gwVars, lastSnap, dirty>>

\* the callers that store tasks and soma states between the calls under study
QuietSetGovernedTask(tasks) == Quiet /\ SetGovernedTask(tasks)
QuietSetSomaState == Quiet /\ SetSomaState(BusySomaStates)

\* One evaluate_and_persist_tasks call alongside one get_full_sovereign_state
\* call, with no other writer while either is running
NextEvaluate ==
    \/ QuietSetGovernedTask(GovernedTasks)
    \/ QuietSetSomaState
    \/ EvalGovernor(1)
    \/ EvalList(1)
    \/ EvalPersistTask(1)
    \/ EvalPersistSummary(1)
    \/ EvalForget(1)
    \/ SnapStatus
    \/ SnapSoma
    \/ SnapEthos
    \/ SnapEmsMental
    \/ SnapEmsSoma
    \/ SnapEmsBio
    \/ SnapPeople
    \/ SnapSummary
    \/ SnapTasks
    \/ SnapReturn

SpecEvaluate == Init /\ [][NextEvaluate]_vars

\* Two threads that each call evaluate_and_persist_tasks once while soma
\* states are stored; the tasks are stored before the first call starts
NextEvaluators ==
    \/ QuietSetGovernedTask(HardTasks)
    \/ SetSomaState(BusySomaStates)
    \/ \E e \in Evaluators : EvalGovernor(e)
    \/ \E e \in Evaluators : EvalList(e)
    \/ \E e \in Evaluators : EvalPersistTask(e)
    \/ \E e \in Evaluators : EvalPersistSummary(e)

SpecEvaluators == Init /\ [][NextEvaluators]_vars

----------------------------------------------------------------------------
(* Chronos API *)

Limits == 0..MaxLimit

\* a v4 uuid is fresh: the key is not in the tree yet
AppendChronosEvent ==
    \E agent_id \in AgentIds, event \in EventRecords, uuid \in Uuids :
        LET key == EventKey(agent_id, event.timestamp_ms, uuid)
            r == append_chronos_event(db, vault, agent_id, event, uuid)
        IN /\ key \notin DOMAIN db[4]
           /\ Cardinality(DOMAIN db[4]) < MaxEvents
           /\ Writes(r.db)
           /\ ret' = Call("append_chronos_event", 4, key,
                           [agent_id |-> agent_id, event |-> event], r.res)
           /\ UNCHANGED <<vault, snapVars, evalVars, gwVars>>

GetRecentChronosEvents ==
    \E agent_id \in AgentIds, limit \in Limits :
        /\ ret' = Call("get_recent_chronos_events", 4, agent_id, limit,
                       Ok(get_recent_chronos_events(db, agent_id, limit)))
        /\ UNCHANGED <<db, vault, snapVars, evalVars, gwVars, lastSnap, dirty>>

NextChronos ==
    \/ AppendChronosEvent
    \/ GetRecentChronosEvents

SpecChronos == Init /\ [][NextChronos]_vars

----------------------------------------------------------------------------
(* Ethos policy API *)

ReflectShadow == <<"R">>
SkillNames == {<<"a">>, <<"A", "k">>, <<"k">>, ReflectShadow}
Contents == {<<>>, <<"k">>, <<"K", "a">>, <<"a", "a">>}

SetEthosPolicyOf(policies) ==
    \E policy \in policies :
        LET r == set_ethos_policy(db, vault, policy)
        IN /\ Writes(r.db)
           /\ ret' = Call("set_ethos_policy", 6, ETHOS_DEFAULT_POLICY_KEY, policy, r.res)
           /\ UNCHANGED <<vault, snapVars, evalVars, gwVars>>

SetEthosPolicy == SetEthosPolicyOf(PolicyRecords)

\* the stored policy consulted about a skill and the content of its payload
Allows ==
    \E skill_name \in SkillNames, content_for_scan \in Contents :
        /\ get_ethos_policy(db) # None
        /\ ret' = Call("allows", 6, get_ethos_policy(db).v,
                       [skill_name |-> skill_name, content_for_scan |-> content_for_scan],
                       allows(get_ethos_policy(db).v, skill_name, content_for_scan))
        /\ UNCHANGED <<db, vault, snapVars, evalVars, gwVars, lastSnap, dirty>>

NextEthos ==
    \/ SetEthosPolicy
    \/ Allows

SpecEthos == Init /\ [][NextEthos]_vars

----------------------------------------------------------------------------
(* The gateway's execute handler *)

DEFAULT_AGENT_ID == <<"default">>

\* req.agent_id: absent, empty or an id
RequestAgentIds == {None, Some(<<>>), Some(<<"A">>)}

\* req.agent_id.as_deref().filter(|s| !s.is_empty()).unwrap_or(DEFAULT_AGENT_ID)
RequestAgent(agent_id) ==
    IF agent_id = None \/ agent_id.v = <<>> THEN DEFAULT_AGENT_ID ELSE agent_id.v

SessionKeys == {"key1", "key2"}

\* the payload of an ExecuteSkill goal: absent, or an object with or without
\* a "content" string and a "session_key" string
Payloads ==
    {None} \cup
    {Some(p) : p \in [content : {None, Some(<<"K", "a">>)},
                      session_key : {None} \cup {Some(k) : k \in SessionKeys}]}

Goals ==
    [kind : {"ExecuteSkill"}, name : {<<"A", "k">>, ReflectShadow}, payload : Payloads]
        \cup {[kind |-> "Custom", name |-> <<>>, payload |-> None]}

\* the policies the gateway's collaborators install in this scenario
GatewayPolicies ==
    [forbidden_actions : {<<>>, <<<<"K">>>>},
     sensitive_keywords : {<<>>, <<<<"k", "a">>>>},
     approval_required : BOOLEAN]

\* the clock read by EventRecord::now while the handler runs
GatewayClock == {100}

\* payload.and_then(|p| p.get("session_key")).and_then(|v| v.as_str())
ClientKey(payload) == IF payload = None THEN None ELSE payload.v.session_key

\* the "content" string of the payload, "" when the payload has none or is absent
ContentToScan(payload) ==
    IF payload = None \/ payload.v.content = None THEN <<>> ELSE payload.v.content.v

\* EventRecord::now("Ethos", format!("Policy Violation: {}", reason))
\*     .with_skill(name).with_outcome("blocked")
ViolationEvent(timestamp_ms, name, reason) ==
    [timestamp_ms |-> timestamp_ms, source_kb |-> "Ethos",
     reflection |-> [text |-> "Policy Violation: ", about |-> reason],
     skill_name |-> Some(name), outcome |-> Some("blocked")]

\* chronos_event_from_goal_and_result: no event for a Custom goal
chronos_event_from_goal_and_result(timestamp_ms, goal, result) ==
    IF goal.kind = "ExecuteSkill"
    THEN Some([timestamp_ms |-> timestamp_ms, source_kb |-> "Soma",
               reflection |-> [text |-> "Executed skill: ", about |-> goal.name],
               skill_name |-> Some(goal.name), outcome |-> Some(result.status)])
    ELSE None

ErrorResponse(error) == Some([status |-> "error", error |-> error])

\* the reply to a goal that Ethos blocked
ViolationResponse(reason, name) ==
    Some([status |-> "policy_violation", error |-> reason, skill |-> name])

\* the ReflectShadow guard: the session key of the payload against PAGI_SHADOW_KEY
shadow_check(g, env_key) ==
    IF g.goal.kind # "ExecuteSkill" THEN [g EXCEPT !.pc = "dispatch"]
    ELSE IF /\ g.goal.name = ReflectShadow
            /\ (ClientKey(g.goal.payload) # env_key \/ env_key = None)
         THEN [g EXCEPT !.pc = "responded",
                        !.response = ErrorResponse("ReflectShadow requires valid session_key")]
    ELSE [g EXCEPT !.pc = "ethos"]

ethos_check_warn_only(g, d) ==
    LET policy == get_ethos_policy(d)
    IN IF policy = None THEN [g EXCEPT !.pc = "dispatch"]
       ELSE [g EXCEPT !.pc = "dispatch",
                      !.verdict = Some(allows(policy.v, g.goal.name,
                                              ContentToScan(g.goal.payload)))]

\* the Ethos pre-execution check: the stored policy, if any, decides
ethos_check(g, d) ==
    LET policy == get_ethos_policy(d)
    IN IF policy = None THEN [g EXCEPT !.pc = "dispatch"]
       ELSE LET verdict == allows(policy.v, g.goal.name, ContentToScan(g.goal.payload))
            IN [g EXCEPT !.pc = IF verdict.kind = "fail" THEN "violation" ELSE "dispatch",
                         !.verdict = Some(verdict)]

GwStep(from, next) ==
    /\ gw.pc = from
    /\ gw' = next
    /\ UNCHANGED <<db, vault, ret, snapVars, evalVars, lastSnap, dirty, hb, th, orch>>

\* a request arrives; the Chronos tree has room for what the handler appends
GwReceive ==
    \E agent_id \in RequestAgentIds, goal \in Goals :
        /\ Cardinality(DOMAIN db[4]) < MaxLogged
        /\ GwStep("idle", [NoRequest EXCEPT !.pc = "shadow",
                                             !.agent_id = RequestAgent(agent_id),
                                             !.goal = goal])

GwShadowCheck ==
    \E env_key \in {None, Some("key1")} : GwStep("shadow", shadow_check(gw, env_key))

GwEthosCheck == GwStep("ethos", ethos_check(gw, db))

\* an event appended by the handler, its result ignored or only logged
GwAppend(from, event, next) ==
    \E uuid \in Uuids :
        LET key == EventKey(gw.agent_id, event.timestamp_ms, uuid)
            r == append_chronos_event(db, vault, gw.agent_id, event, uuid)
        IN /\ gw.pc = from
           /\ key \notin DOMAIN db[4]
           /\ Writes(r.db)
           /\ gw' = [next EXCEPT !.logged = Some(key)]
           /\ UNCHANGED <<vault, ret, snapVars, evalVars, hb, th, orch>>

GwLogViolation ==
    \E timestamp_ms \in GatewayClock :
        GwAppend("violation",
                 ViolationEvent(timestamp_ms, gw.goal.name, gw.verdict.v.reason),
                 [gw EXCEPT !.pc = "reply"])

GwReplyViolation ==
    GwStep("reply", [gw EXCEPT !.pc = "responded",
                               !.response = ViolationResponse(gw.verdict.v.reason, gw.goal.name)])

\* state.orchestrator.dispatch(&ctx, req.goal.clone()).await
GwDispatchOk ==
    \E status \in {"ok", "skills_disabled"} :
        GwStep("dispatch", [gw EXCEPT !.pc = "chronos", !.dispatched = TRUE,
                                      !.response = Some([status |-> status])])

GwDispatchErr ==
    GwStep("dispatch", [gw EXCEPT !.pc = "responded", !.dispatched = TRUE,
                                  !.response = ErrorResponse("dispatch failed")])

GwLogSuccess ==
    \E timestamp_ms \in GatewayClock :
        LET event == chronos_event_from_goal_and_result(timestamp_ms, gw.goal, gw.response.v)
        IN /\ gw.pc = "chronos"
           /\ event # None
           /\ GwAppend("chronos", event.v, [gw EXCEPT !.pc = "responded"])

GwNothingToLog ==
    /\ gw.pc = "chronos"
    /\ chronos_event_from_goal_and_result(0, gw.goal, gw.response.v) = None
    /\ GwStep("chronos", [gw EXCEPT !.pc = "responded"])

GwForget == GwStep("responded", NoRequest)

NextGateway ==
    \/ SetEthosPolicyOf(GatewayPolicies)
    \/ GwReceive
    \/ GwShadowCheck
    \/ GwEthosCheck
    \/ GwLogViolation
    \/ GwReplyViolation
    \/ GwDispatchOk
    \/ GwDispatchErr
    \/ GwLogSuccess
    \/ GwNothingToLog
    \/ GwForget

SpecGateway == Init /\ [][NextGateway]_vars

----------------------------------------------------------------------------
(* Compassionate routing API *)

GetActiveShadowAnchors ==
    /\ ret' = Call("get_active_shadow_anchors", SHADOW_SLOT_ID, <<>>, NoArg,
                   get_active_shadow_anchors(db, vault))
    /\ UNCHANGED <<db, vault, snapVars, evalVars, gwVars, lastSnap, dirty>>

CheckMentalLoad ==
    /\ ret' = Call("check_mental_load", SHADOW_SLOT_ID, <<>>, NoArg,
                   check_mental_load(db, vault))
    /\ UNCHANGED <<db, vault, snapVars, evalVars, gwVars, lastSnap, dirty>>

\* anchors stored, the process restarted with the same key, another or none,
\* and the mental load checked
NextLoad ==
    \/ InsertShadowAnchorOf(LoadKeys, LoadAnchors, {1})
    \/ Reopen
    \/ GetActiveShadowAnchors
    \/ CheckMentalLoad

SpecLoad == Init /\ [][NextLoad]_vars

----------------------------------------------------------------------------
(* Kardia relation API *)

OwnerIds == {<<>>, <<"default">>, <<"A">>}

SetRelation(owner_agent_id, record) ==
    LET r == set_kardia_relation(db, vault, owner_agent_id, record)
    IN /\ Writes(r.db)
       /\ ret' = Call("set_kardia_relation", 7, owner_agent_id, record, r.res)
       /\ UNCHANGED <<vault, snapVars, evalVars, gwVars>>

\* a record as a caller holds it: built from the fields, or read back and modified
SetKardiaRelation ==
    \E owner_agent_id \in OwnerIds, record \in RelationRecords :
        SetRelation(owner_agent_id, record)

\* a record made by RelationRecord::new(user_id).with_trust_score(score)
SetKardiaRelationBuilt ==
    \E owner_agent_id \in OwnerIds, user_id \in UserIds, score \in TrustScores :
        SetRelation(owner_agent_id, with_trust_score(NewRelationRecord(user_id), score))

GetKardiaRelation ==
    \E owner_agent_id \in OwnerIds, target_id \in UserIds :
        /\ ret' = Call("get_kardia_relation", 7, owner_agent_id, target_id,
                       get_kardia_relation(db, owner_agent_id, target_id))
        /\ UNCHANGED <<db, vault, snapVars, evalVars, gwVars, lastSnap, dirty>>

NextKardia ==
    \/ SetKardiaRelation
    \/ SetKardiaRelationBuilt
    \/ GetKardiaRelation

SpecKardia == Init /\ [][NextKardia]_vars

----------------------------------------------------------------------------
(* Properties of the byte-level API and of the Shadow slot *)

\* C1: after a successful insert(slot, key, value) with slot in 1..9,
\* get(slot, key) returns Some(value) for slots 1..8, and for slot 9 a
\* ciphertext, different from value, that the vault decrypts to value.
C1_InsertThenGet ==
    (ret.op = "insert" /\ ret.slot \in 1..9 /\ ret.res.kind = "ok") =>
        LET g == get(db, ret.slot, ret.key) IN
        IF ret.slot <= 8
        THEN g = Ok(Some(ret.value))
        ELSE /\ g.kind = "ok" /\ g.v # None
             /\ g.v.v # ret.value
             /\ decrypt_blob(vault, g.v.v) = Ok(ret.value)

\* an insert into slot 9 that replaced an earlier value of the key
C1_Witness ==
    /\ ret.op = "insert" /\ ret.slot = 9
    /\ ret.res.kind = "ok" /\ ret.res.v # None
    /\ \E s \in 1..8 : DOMAIN db[s] # {}

\* C2: with the vault locked, insert(9, key, value) and
\* insert_shadow_anchor(key, anchor) return an error and leave every tree,
\* partition 9 included, as it was.
C2_LockedWriteRejected ==
    [][(/\ vault = NoKey
        /\ ret'.op \in {"insert", "insert_shadow_anchor"}
        /\ ret'.slot = SHADOW_SLOT_ID)
       => (ret'.res.kind = "err" /\ db' = db)]_vars

\* a refused insert_shadow_anchor on a locked store whose partition 9 holds a key
C2_Witness ==
    /\ vault = NoKey
    /\ ret.op = "insert_shadow_anchor" /\ ret.res.kind = "err"
    /\ DOMAIN db[9] # {}

\* C3: with the vault locked, get_shadow_anchor and get_shadow_decrypted
\* return the locked error for every key, present or not; never Ok(None).
C3_LockedReadsAlwaysLocked ==
    (vault = NoKey /\ ret.op \in {"get_shadow_anchor", "get_shadow_decrypted"})
        => ret.res = Err(ErrShadowLocked)

IsVaultCiphertext(b) ==
    /\ b.kind = "ct"
    /\ b.p.mk \in MasterKeys
    /\ b.p.nonce \in Nonces
    /\ b.p.plain.kind \in {"raw", "anchor"}

\* C4: every value of partition 9 is a vault ciphertext of bytes a caller
\* passed; a successful write leaves the encryption of its argument; get(9, key)
\* and scan_kv(9) return the stored ciphertext, and only get_shadow_anchor and
\* get_shadow_decrypted return the plaintext.
C4_ShadowHoldsCiphertext ==
    /\ \A k \in DOMAIN db[9] : IsVaultCiphertext(db[9][k])
    /\ (ret.op \in {"insert", "insert_shadow_anchor"} /\ ret.slot = 9 /\ ret.res.kind = "ok")
         => /\ ret.key \in DOMAIN db[9]
            /\ \E n \in Nonces : db[9][ret.key] = Ciphertext(vault, n, ret.value)
    /\ (ret.op = "get" /\ ret.slot = 9 /\ ret.res.v # None)
         => /\ IsVaultCiphertext(ret.res.v.v)
            /\ ret.res.v.v = db[9][ret.key]
    /\ (ret.op = "scan_kv" /\ ret.slot = 9)
         => /\ \A kv \in ret.res.v : IsVaultCiphertext(kv[2])
            /\ {kv[1] : kv \in ret.res.v} = DOMAIN db[9]
    /\ (ret.op = "get_shadow_decrypted" /\ ret.res.kind = "ok" /\ ret.res.v # None)
         => ret.res.v.v = db[9][ret.key].p.plain
    /\ (ret.op = "get_shadow_anchor" /\ ret.res.kind = "ok" /\ ret.res.v # None)
         => AnchorToBytes(ret.res.v.v) = db[9][ret.key].p.plain

\* a generic get of a Shadow key that is present
C4_Witness ==
    /\ ret.op = "get" /\ ret.slot = 9 /\ ret.res.v # None
    /\ vault # NoKey

OutOfRange(slot_id) == slot_id \notin 1..9

\* C5 as stated: get, insert and remove with a slot id outside 1..9 return
\* an error and leave the nine partitions unchanged.
C5_OutOfRangeRejected ==
    [][(ret'.op \in {"get", "insert", "remove"} /\ OutOfRange(ret'.slot))
       => (ret'.res.kind = "err" /\ db' = db)]_vars

\* C5 amended: get, insert and remove with a slot id outside 1..9 are not
\* rejected; they return Ok and act on partition 1 as the same call with
\* slot 1 does, and partitions 2..9 are unchanged.
C5_OutOfRangeClamped ==
    [][(ret'.op \in {"get", "insert", "remove"} /\ OutOfRange(ret'.slot))
       => /\ ret'.res = Ok(TreeGet(db[1], ret'.key))
          /\ \A s \in 2..9 : db'[s] = db[s]
          /\ ret'.op = "get" => db' = db
          /\ ret'.op = "insert" => TreeGet(db'[1], ret'.key) = Some(ret'.value)
          /\ ret'.op = "remove" => TreeGet(db'[1], ret'.key) = None
          /\ \A k \in (DOMAIN db[1] \cup DOMAIN db'[1]) \ {ret'.key} :
                TreeGet(db'[1], k) = TreeGet(db[1], k)]_vars

\* an insert with slot id 10 that replaced a value of partition 1
C5_Witness ==
    /\ ret.op = "insert" /\ ret.slot = 10
    /\ ret.res.kind = "ok" /\ ret.res.v # None
    /\ TreeGet(db[1], ret.key) = Some(ret.value)

\* C6: insert(s, k, v) and remove(s, k) with s in 1..9 change at most key k
\* of partition s: every other key of s and every key of the other
\* partitions keeps its value (or stays absent).
C6_PartitionsIsolated ==
    [][(ret'.op \in {"insert", "remove"} /\ ret'.slot \in 1..9)
       => \A s \in Slots : \A k \in DOMAIN db[s] \cup DOMAIN db'[s] :
            (s # ret'.slot \/ k # ret'.key) => TreeGet(db'[s], k) = TreeGet(db[s], k)]_vars

\* after an insert, one key string holds different values in two partitions
C6_Witness ==
    /\ ret.op = "insert" /\ ret.slot \in 1..9 /\ ret.res.kind = "ok"
    /\ \E s1, s2 \in Slots : \E k \in DOMAIN db[s1] \cap DOMAIN db[s2] :
          s1 # s2 /\ db[s1][k] # db[s2][k]

----------------------------------------------------------------------------
(* Properties of the effective mental state and of the sovereign snapshot *)

\* what is stored under a typed key, read from the tree itself
Stored(slot_id, key, default) ==
    IF key \in DOMAIN db[slot_id] THEN db[slot_id][key].p ELSE default
IsStored(slot_id, key) == key \in DOMAIN db[slot_id]

StoredSomaInDebt ==
    /\ IsStored(8, SOMA_STATE_KEY)
    /\ \/ db[8][SOMA_STATE_KEY].p.readiness_score < 50
       \/ db[8][SOMA_STATE_KEY].p.sleep_hours < 60

\* C7 as stated: with a stored base mental state and a stored soma state with
\* readiness_score < 50 or sleep_hours < 6.0, get_effective_mental_state
\* returns grace_multiplier = 1.6 and burnout_risk >= base burnout_risk + 0.15.
C7_BurnoutAtLeastBasePlusIncrement ==
    (ret.op = "get_effective_mental_state" /\ IsStored(7, MENTAL_STATE_KEY) /\ StoredSomaInDebt)
        => /\ ret.res.v.grace_multiplier = 16
           /\ ret.res.v.burnout_risk >= db[7][MENTAL_STATE_KEY].p.burnout_risk + 15

\* C7 amended: in the same case it returns grace_multiplier = 1.6 and
\* burnout_risk >= min(1.0, base burnout_risk + 0.15), with equality for a
\* base within [0, 1].
C7_BurnoutAtLeastCappedIncrement ==
    (ret.op = "get_effective_mental_state" /\ IsStored(7, MENTAL_STATE_KEY) /\ StoredSomaInDebt)
        => LET base == db[7][MENTAL_STATE_KEY].p.burnout_risk
               capped == IF base + 15 > 100 THEN 100 ELSE base + 15
           IN /\ ret.res.v.grace_multiplier = 16
              /\ ret.res.v.burnout_risk >= capped
              /\ base \in 0..100 => ret.res.v.burnout_risk = capped

\* a call with a soma state in debt and a base burnout_risk above 0.85
C7_Witness ==
    /\ ret.op = "get_effective_mental_state"
    /\ IsStored(7, MENTAL_STATE_KEY) /\ StoredSomaInDebt
    /\ db[7][MENTAL_STATE_KEY].p.burnout_risk > 85
    /\ ret.res.v.burnout_risk = 100

\* C8: get_effective_mental_state applies exactly one adjustment: BioGate
\* (+0.15 capped at 1.0, grace 1.6) when the soma state asks for it, whatever
\* the biometric state; else the legacy one (+0.2 capped at 1.0, grace 1.5)
\* when sleep_score < 60; else the clamped base values.
C8_ExactlyOneAdjustment ==
    (ret.op = "get_effective_mental_state") =>
        LET base == Stored(7, MENTAL_STATE_KEY, MentalDefault)
            soma == Stored(8, SOMA_STATE_KEY, SomaDefault)
            bio == Stored(8, BIOMETRIC_STATE_KEY, BiometricDefault)
            cap(x) == IF x > 100 THEN 100 ELSE IF x < 0 THEN 0 ELSE x
            got == ret.res.v
        IN IF soma.readiness_score < 50 \/ soma.sleep_hours < 60
           THEN got = [burnout_risk |-> cap(base.burnout_risk + 15), grace_multiplier |-> 16]
           ELSE IF bio.sleep_score < 60
           THEN got = [burnout_risk |-> cap(base.burnout_risk + 20), grace_multiplier |-> 15]
           ELSE got = [burnout_risk |-> cap(base.burnout_risk),
                       grace_multiplier |-> IF base.grace_multiplier < 10 THEN 10
                                            ELSE base.grace_multiplier]

\* a call with both a soma state in debt and a poor sleep_score stored
C8_Witness ==
    /\ ret.op = "get_effective_mental_state"
    /\ StoredSomaInDebt
    /\ IsStored(8, BIOMETRIC_STATE_KEY) /\ db[8][BIOMETRIC_STATE_KEY].p.sleep_score < 60
    /\ IsStored(7, MENTAL_STATE_KEY)
    /\ ret.res.v.grace_multiplier = 16

\* C9: no step of get_full_sovereign_state changes a tree, and a call made
\* with the trees as they were throughout the previous call returns the
\* snapshot that call returned.
C9_SnapshotIsPureRead ==
    [][(snapPc' # snapPc)
       => /\ db' = db
          /\ (snapPc = "return" /\ ~dirty /\ lastSnap # None) => Returned = lastSnap.v]_vars

\* a second call about to return, no write since the first one started, on a
\* store that holds a soma state
C9_Witness ==
    /\ snapPc = "return" /\ ~dirty /\ lastSnap # None
    /\ IsStored(8, SOMA_STATE_KEY)

\* C10: in every returned snapshot bio_gate_active is needs_biogate_adjustment
\* of the snapshot's soma field, and bio_gate_active implies that the
\* snapshot's mental state has grace_multiplier = 1.6, also with set_soma_state
\* running while the snapshot is assembled.  Stated for the snapshots whose
\* soma field carries sleep data, so that the default soma state plays no part.
C10_SnapshotBioGateConsistent ==
    (snapPc = "return" /\ Returned.soma.sleep_hours > 0) =>
        /\ Returned.bio_gate_active
             = (Returned.soma.readiness_score < 50 \/ Returned.soma.sleep_hours < 60)
        /\ Returned.bio_gate_active => Returned.mental.grace_multiplier = 16

----------------------------------------------------------------------------
(* Properties of task governance *)

\* the summary a call writes, as get_governance_summary returns it
SummaryOf(ev) == Some(governance_summary(Governor(ev), ev.tasks).p)

\* the call changes the effective_priority of a task it listed
ChangesPriority(ev) ==
    \E i \in 1..Len(ev.tasks) : evaluate(Governor(ev), ev.tasks[i]) # ev.tasks[i]

\* a snapshot with the summary of the call and the tasks as the call listed them
NewSummaryOldTasks(sn, ev) ==
    /\ sn.governance_summary = SummaryOf(ev)
    /\ sn.governed_tasks = ev.tasks

\* some interleaving of the remaining writes of the call with the remaining
\* slot-2 reads of the snapshot ends in a snapshot with the new summary and
\* the old tasks
RECURSIVE SomeInterleavingMixes(_, _, _, _)
SomeInterleavingMixes(d, ev, pc, sn) ==
    IF pc = "return" THEN NewSummaryOldTasks(sn, ev)
    ELSE \/ /\ pc = "summary"
            /\ SomeInterleavingMixes(d, ev, "tasks", snap_summary(d, sn))
         \/ /\ pc = "tasks"
            /\ SomeInterleavingMixes(d, ev, "return", snap_tasks(d, sn))
         \/ /\ ev.pc \in {"write", "summary"}
            /\ SomeInterleavingMixes(eval_step(d, vault, ev).db, eval_step(d, vault, ev).ev, pc, sn)

\* C11 as stated: with an evaluation about to write back its first task and
\* a snapshot about to read the summary, no other writer, there is an
\* interleaving in which the returned snapshot has the summary written by
\* that evaluation and governed_tasks with the pre-evaluation priorities.
C11_NewSummaryWithOldTasksPossible ==
    (/\ evals[1].pc = "write" /\ evals[1].i = 1
     /\ ChangesPriority(evals[1])
     /\ get_governance_summary(db) # SummaryOf(evals[1])
     /\ snapPc = "summary")
        => SomeInterleavingMixes(db, evals[1], snapPc, snap)

\* C11 amended: a snapshot that holds the summary written by the evaluation
\* running alongside it holds every task with its post-evaluation
\* effective_priority; the mixed snapshot that does occur is the opposite
\* one, post-evaluation tasks with the pre-evaluation summary.
C11_NewSummaryImpliesNewTasks ==
    (/\ snapPc = "return"
     /\ evals[1].pc = "done"
     /\ evals[1].replaced # Some(governance_summary(Governor(evals[1]), evals[1].tasks))
     /\ snap.governance_summary = SummaryOf(evals[1]))
        => snap.governed_tasks = evals[1].evaluated

\* a snapshot about to be returned with the tasks as the evaluation wrote
\* them, changed, and the summary the evaluation had not yet replaced
C11_Witness ==
    /\ snapPc = "return"
    /\ evals[1].pc \in {"summary", "done"}
    /\ ChangesPriority(evals[1])
    /\ snap.governed_tasks = evals[1].evaluated
    /\ Len(snap.governed_tasks) = 2
    /\ snap.governance_summary # SummaryOf(evals[1])

\* the tasks now stored, and the tasks a call returned, as sets
StoredTasks == {get_governed_task(db, id).v : id \in {i \in TaskIds : get_governed_task(db, i) # None}}
EvaluatedBy(e) == {evals[e].evaluated[i] : i \in 1..Len(evals[e].evaluated)}

BothReturned == \A e \in Evaluators : evals[e].pc = "done"

\* C12: once two concurrent evaluate_and_persist_tasks calls have returned,
\* every stored task carries the effective_priority one of the two calls
\* wrote back for it, and the stored tasks can be a mix: one task from one
\* call and another from the other, which is the result of neither call and
\* so of neither serial order.
C12_StoredPriorityFromOneEvaluator ==
    BothReturned => \A t \in StoredTasks : \E e \in Evaluators : t \in EvaluatedBy(e)

\* both calls have returned, they captured different governors, and the stored
\* tasks are those of neither call: one task as call 1 wrote it, the other as
\* call 2 wrote it
C12_Witness ==
    /\ BothReturned
    /\ Governor(evals[1]) # Governor(evals[2])
    /\ \A e \in Evaluators : StoredTasks # EvaluatedBy(e)
    /\ \E t \in StoredTasks : t \in EvaluatedBy(1) /\ t \notin EvaluatedBy(2)
    /\ \E t \in StoredTasks : t \in EvaluatedBy(2) /\ t \notin EvaluatedBy(1)

\* the keys stored under oikos/tasks/
TaskKeys(d) == {k \in DOMAIN d[2] : StartsWith(k, OIKOS_TASK_PREFIX)}

\* the keys evaluate_and_persist_tasks may write
GovernanceKey(slot_id, k) ==
    slot_id = 2 /\ (StartsWith(k, OIKOS_TASK_PREFIX) \/ k = OIKOS_GOVERNANCE_SUMMARY_KEY)

\* C13: no step of an evaluate_and_persist_tasks call, run with no other
\* writer, adds or removes a key under oikos/tasks/ or changes a key other
\* than those and oikos/governance/summary; when the call returns Ok, every
\* returned task is the task stored under its id and the summary of the call
\* is stored under oikos/governance/summary.
C13_EvaluationPersistsItsResult ==
    [][(evals'[1] # evals[1] /\ evals[1].pc # "done")
       => /\ TaskKeys(db') = TaskKeys(db)
          /\ \A s \in Slots : \A k \in (DOMAIN db[s]) \cup (DOMAIN db'[s]) :
                ~GovernanceKey(s, k) => TreeGet(db'[s], k) = TreeGet(db[s], k)
          /\ (evals'[1].pc = "done")
                => /\ ret' = Call("evaluate_and_persist_tasks", 2, <<>>, NoArg,
                                  Ok(evals'[1].evaluated))
                   /\ \A i \in 1..Len(evals'[1].evaluated) :
                         /\ TaskKey(evals'[1].evaluated[i].task_id) \in TaskKeys(db')
                         /\ get_governed_task(db', evals'[1].evaluated[i].task_id)
                              = Some(evals'[1].evaluated[i])
                   /\ Len(evals'[1].evaluated) = Cardinality(TaskKeys(db'))
                   /\ OIKOS_GOVERNANCE_SUMMARY_KEY \in DOMAIN db'[2]
                   /\ db'[2][OIKOS_GOVERNANCE_SUMMARY_KEY].kind = "text"]_vars

\* a call that has returned two tasks, one of them with a new
\* effective_priority, on a store that also holds a soma state
C13_Witness ==
    /\ ret.op = "evaluate_and_persist_tasks"
    /\ evals[1].pc = "done"
    /\ Len(evals[1].evaluated) = 2
    /\ ChangesPriority(evals[1])
    /\ IsStored(8, SOMA_STATE_KEY)

----------------------------------------------------------------------------
(* Properties of the Chronos stream *)

HasEvent(seq, x) == \E i \in 1..Len(seq) : seq[i] = x

NewestFirst(events) ==
    \A i \in 1..Len(events), j \in 1..Len(events) :
        i < j => events[i].timestamp_ms >= events[j].timestamp_ms

Appended == ret.op = "append_chronos_event"

\* the other stored events that get_recent_chronos_events keeps for the agent of
\* the append just made and that are at least as new as the appended event
OthersAsNew ==
    {key \in ChronosKeysFor(db, ret.value.agent_id) \ {ret.key} :
        db[4][key].p.timestamp_ms >= ret.value.event.timestamp_ms}

\* C14 as stated: after append_chronos_event(agent, e), for every limit k,
\* get_recent_chronos_events(agent, k) contains e and is ordered by
\* non-increasing timestamp_ms.
C14_EveryLimitContainsAppended ==
    Appended =>
        \A k \in Limits :
            LET recent == get_recent_chronos_events(db, ret.value.agent_id, k)
            IN HasEvent(recent, ret.value.event) /\ NewestFirst(recent)

\* C14 amended: after append_chronos_event(agent, e),
\* get_recent_chronos_events(agent, k) contains e for every limit k greater than
\* the number of other events kept for the agent whose timestamp_ms is at least
\* e's, and the returned events are ordered by non-increasing timestamp_ms.
C14_LargeEnoughLimitContainsAppended ==
    Appended =>
        \A k \in Limits :
            LET recent == get_recent_chronos_events(db, ret.value.agent_id, k)
            IN /\ k > Cardinality(OthersAsNew) => HasEvent(recent, ret.value.event)
               /\ Len(recent) <= k
               /\ NewestFirst(recent)

\* an event appended with the empty agent id while a newer event of "default"
\* is stored: limit 2 returns the newer one and then the appended one, limit 1
\* the newer one only
C14_Witness ==
    /\ Appended
    /\ ret.value.agent_id = <<>>
    /\ ret.value.event.timestamp_ms = 100
    /\ Cardinality(OthersAsNew) = 1
    /\ get_recent_chronos_events(db, <<"default">>, 2)[2] = ret.value.event
    /\ get_recent_chronos_events(db, <<"default">>, 2)[1].timestamp_ms = 200
    /\ ~HasEvent(get_recent_chronos_events(db, <<"default">>, 1), ret.value.event)

\* the events stored under event/{agent}/
AppendedFor(agent_id) ==
    {db[4][key].p : key \in {x \in DOMAIN db[4] :
        StartsWith(x, <<"event/">> \o AgentPrefix(agent_id) \o <<"/">>)}}

\* C15: get_recent_chronos_events(A, limit) returns only events that were
\* appended with agent id A, those under event/A/; an event appended for
\* another agent id B, also one of which A is a string prefix, is not returned.
C15_RecentEventsAreOfTheAgent ==
    ret.op = "get_recent_chronos_events" =>
        \A i \in 1..Len(ret.res.v) : ret.res.v[i] \in AppendedFor(ret.key)

----------------------------------------------------------------------------
(* Properties of the Kardia relations *)

\* C16: after any set_kardia_relation(owner, record), the relation stored under
\* relation/{owner or default}/{record.user_id} and returned by
\* get_kardia_relation(owner, record.user_id) has trust_score within [0,1].
C16_StoredTrustWithinUnitInterval ==
    ret.op = "set_kardia_relation" =>
        LET stored == get_kardia_relation(db, ret.key, ret.value.user_id)
        IN /\ stored # None
           /\ IsStored(7, <<"relation/">> \o AgentPrefix(ret.key) \o <<"/", ret.value.user_id>>)
           /\ stored.v.trust_score >= 0
           /\ stored.v.trust_score <= 100

----------------------------------------------------------------------------
(* Properties of the Ethos policy *)

Entries(list) == {list[i] : i \in 1..Len(list)}

\* the lower-cased skill name contains a lower-cased forbidden action
ForbiddenMatch(policy, skill_name) ==
    \E f \in Entries(policy.forbidden_actions) :
        contains(to_lowercase(skill_name), to_lowercase(f))

\* the sensitive keywords whose lower-cased form occurs in the lower-cased text
KeywordMatches(policy, text) ==
    {kw \in Entries(policy.sensitive_keywords) :
        contains(to_lowercase(text), to_lowercase(kw))}

\* C17: allows(skill, text) is Fail when the lower-cased skill name contains a
\* lower-cased forbidden action, whatever the keywords; otherwise Fail naming
\* a matching keyword when approval_required and the lower-cased text
\* contains a lower-cased sensitive keyword; Pass in every other case, also
\* on a keyword match while approval_required is false.
C17_AllowsDecidesForbiddenThenKeywords ==
    ret.op = "allows" =>
        LET policy == ret.key
            forbidden == ForbiddenMatch(policy, ret.value.skill_name)
            keywords == KeywordMatches(policy, ret.value.content_for_scan)
        IN /\ forbidden => ret.res = Fail(ForbiddenReason(ret.value.skill_name))
           /\ ~forbidden /\ policy.approval_required /\ keywords # {} =>
                  /\ ret.res.kind = "fail"
                  /\ ret.res.reason.text = KeywordReason(<<>>).text
                  /\ ret.res.reason.names \in keywords
           /\ ~forbidden /\ ~(policy.approval_required /\ keywords # {}) => ret.res = Pass

\* skill "Ak" against the forbidden action "K" with a text holding a sensitive
\* keyword: the forbidden action decides, only through the lower-casing
C17_Witness ==
    /\ ret.op = "allows"
    /\ ret.value.skill_name = <<"A", "k">>
    /\ ret.key.forbidden_actions = <<<<"K">>>>
    /\ ret.key.approval_required
    /\ KeywordMatches(ret.key, ret.value.content_for_scan) # {}
    /\ ret.res = Fail(ForbiddenReason(<<"A", "k">>))

----------------------------------------------------------------------------
(* Properties of the gateway's execute handler *)

\* the stored policy was consulted for the goal in hand and returned Fail
Blocked == gw.verdict # None /\ gw.verdict.v.kind = "fail"

\* C18: when the stored default policy's allows(name, content) returns Fail for
\* an ExecuteSkill goal, the handler never asks the orchestrator to dispatch
\* the goal, and when it has responded the response has status
\* policy_violation with the reason and a Chronos event whose reflection
\* starts with "Policy Violation" is stored under event/{agent}/ for the
\* request's agent.
C18_BlockedGoalIsLoggedNotDispatched ==
    Blocked =>
        /\ gw.goal.kind = "ExecuteSkill"
        /\ ~gw.dispatched
        /\ gw.pc \in {"violation", "reply", "responded"}
        /\ gw.pc = "responded" =>
              /\ gw.response = Some([status |-> "policy_violation",
                                     error |-> gw.verdict.v.reason,
                                     skill |-> gw.goal.name])
              /\ gw.logged # None
              /\ IsStored(4, gw.logged.v)
              /\ StartsWith(gw.logged.v, <<"event/">> \o gw.agent_id \o <<"/">>)
              /\ db[4][gw.logged.v].p.reflection =
                     [text |-> "Policy Violation: ", about |-> gw.verdict.v.reason]

\* a request without agent id whose payload content holds the sensitive
\* keyword: blocked, answered, and the violation is what
\* get_recent_chronos_events returns for the default agent
C18_Witness ==
    /\ Blocked
    /\ gw.pc = "responded"
    /\ gw.agent_id = DEFAULT_AGENT_ID
    /\ gw.verdict.v.reason = KeywordReason(<<"k", "a">>)
    /\ gw.response.v.status = "policy_violation"
    /\ get_recent_chronos_events(db, <<>>, 1)[1].outcome = Some("blocked")

----------------------------------------------------------------------------
(* Properties of compassionate routing *)

\* the anchor that was stored under a key of the Shadow slot
AnchorAt(key) == db[9][key].p.plain.p

\* the keys under anchor/ that hold an anchor
AnchorKeys ==
    {key \in DOMAIN db[9] :
        /\ StartsWith(key, <<"anchor/">>)
        /\ db[9][key].kind = "ct"
        /\ db[9][key].p.plain.kind = "anchor"}

HeavyKeys(keys) == {key \in keys : AnchorAt(key).active /\ AnchorAt(key).intensity > 50}

\* the anchors that were encrypted with the master key the vault holds now
ReadableKeys == {key \in AnchorKeys : db[9][key].p.mk = vault}

Checked == ret.op = "check_mental_load"

DirectiveNamesHeavy(keys) ==
    /\ ret.res # None <=> HeavyKeys(keys) # {}
    /\ ret.res # None =>
          Entries(ret.res.v.detected) = {AnchorAt(key).anchor_type : key \in HeavyKeys(keys)}

\* C19 as stated: with the vault unlocked, check_mental_load returns a
\* directive iff some anchor stored under an anchor/ key is active with
\* intensity > 0.5, and the directive names exactly the types of those anchors.
C19_DirectiveIffStoredHeavyAnchor ==
    (Checked /\ is_unlocked(vault)) => DirectiveNamesHeavy(AnchorKeys)

\* C19 amended: with the vault unlocked, check_mental_load returns a directive
\* iff some anchor stored under an anchor/ key that decrypts with the vault's
\* current master key is active with intensity > 0.5, and the directive names
\* exactly the types of those anchors; anchors that are inactive, at most
\* 0.5, or encrypted with another key are not named.
C19_DirectiveIffReadableHeavyAnchor ==
    (Checked /\ is_unlocked(vault)) => DirectiveNamesHeavy(ReadableKeys)

\* two readable anchors under anchor/, one active at 0.8 and one active at the
\* threshold 0.5: the directive names the type of the first only
C19_Witness ==
    /\ Checked
    /\ is_unlocked(vault)
    /\ Cardinality(ReadableKeys) = 2
    /\ \E key \in ReadableKeys : AnchorAt(key).active /\ AnchorAt(key).intensity = 50
                                  /\ AnchorAt(key).anchor_type = "work"
    /\ ret.res = Some(Instruction(<<"grief">>))

AnchorContents == {1, 2}

\* the store with the content of every stored anchor replaced
WithContents(d, f) ==
    [d EXCEPT ![9] = [key \in DOMAIN d[9] |->
        IF d[9][key].kind = "ct" /\ d[9][key].p.plain.kind = "anchor"
        THEN [d[9][key] EXCEPT !.p.plain.p.content = f[key]]
        ELSE d[9][key]]]

\* C20: check_mental_load returns a directive or none and never an error;
\* with the vault locked it returns none whatever partition 9 holds; two
\* stores that differ only in the content of their anchors yield the same
\* directive.
C20_DirectiveIndependentOfContent ==
    /\ Checked => ret.res.kind \in {"none", "some"}
    /\ ~is_unlocked(vault) => check_mental_load(db, vault) = None
    /\ \A f \in [DOMAIN db[9] -> AnchorContents] :
          check_mental_load(WithContents(db, f), vault) = check_mental_load(db, vault)

\* a locked store whose partition 9 holds an active anchor of intensity 0.8
\* under anchor/: no directive
C20_Witness ==
    /\ Checked
    /\ ~is_unlocked(vault)
    /\ HeavyKeys(AnchorKeys) # {}
    /\ ret.res = None

----------------------------------------------------------------------------
(* Properties of the locked vault and of the typed reads *)

\* C21: while the vault is locked, the keys and values of partition 9 stay as
\* they are: insert and insert_shadow_anchor addressed to partition 9, and
\* remove of a key that partition 9 holds, return an error.
C21_LockedShadowNeverChanges ==
    [][(vault = NoKey /\ vault' = NoKey) =>
          /\ db'[9] = db[9]
          /\ ret'.slot = SHADOW_SLOT_ID =>
                /\ ret'.op \in {"insert", "insert_shadow_anchor"} => ret'.res.kind = "err"
                /\ (ret'.op = "remove" /\ ret'.key \in DOMAIN db[9]) => ret'.res.kind = "err"]_vars

\* the typed reads of partition 9
ShadowReads == {"get_shadow_anchor", "get_shadow_decrypted"}

\* the stored bytes of the key were encrypted with another master key than the
\* one the vault holds
WrongKey(key) ==
    /\ key \in DOMAIN db[9]
    /\ is_unlocked(vault)
    /\ db[9][key].p.mk # vault

----------------------------------------------------------------------------
(* Typed point reads over bytes written through the byte-level API *)

\* KbRecord, and its JSON
KbRecords == {[content |-> "c1"]}
KbRecordToBytes(record) == [kind |-> "record", p |-> record]

\* get_record: let bytes = self.get(slot_id, key)?; Ok(bytes.and_then(from_bytes))
get_record(d, slot_id, key) == Ok(FromBytesOpt(get(d, slot_id, key), "record"))

\* the keys the typed point reads look up, with the kind of record each parses
\* and one parseable value
TypedEntries ==
    { [op |-> "get_record", slot |-> 1, key |-> <<"note">>, kind |-> "record",
       bytes |-> KbRecordToBytes([content |-> "c1"])],
      [op |-> "get_governed_task", slot |-> 2, key |-> TaskKey(1), kind |-> "task",
       bytes |-> TaskToBytes([task_id |-> 1, base_priority |-> 80, difficulty |-> "easy",
                              effective_priority |-> 80])],
      [op |-> "get_ethos_policy", slot |-> 6, key |-> ETHOS_DEFAULT_POLICY_KEY, kind |-> "policy",
       bytes |-> PolicyToBytes([forbidden_actions |-> <<>>, sensitive_keywords |-> <<>>,
                                approval_required |-> FALSE])],
      [op |-> "get_kardia_relation", slot |-> 7, key |-> kardia_relation_key(<<>>, "user1"),
       kind |-> "relation", bytes |-> RelationToBytes(NewRelationRecord("user1"))],
      [op |-> "get_mental_state", slot |-> 7, key |-> MENTAL_STATE_KEY, kind |-> "mental",
       bytes |-> MentalToBytes([burnout_risk |-> 50, grace_multiplier |-> 12])] }

\* what each typed point read returns on the trees d
TypedRead(d, op) ==
    CASE op = "get_record" -> get_record(d, 1, <<"note">>)
      [] op = "get_governed_task" -> get_governed_task(d, 1)
      [] op = "get_ethos_policy" -> get_ethos_policy(d)
      [] op = "get_kardia_relation" -> get_kardia_relation(d, <<>>, "user1")
      [] op = "get_mental_state" -> get_mental_state(d)

\* insert(slot, key, bytes) of any bytes under a typed key
InsertUnderTypedKey ==
    \E e \in TypedEntries : \E value \in RawValues \cup {e.bytes} :
        LET r == insert(db, vault, e.slot, e.key, value, 1) IN
        /\ Size(r.db) <= MaxEntries
        /\ Writes(r.db)
        /\ ret' = Call("insert", e.slot, e.key, value, r.res)
        /\ UNCHANGED <<vault, snapVars, evalVars, gwVars>>

RemoveTypedKey ==
    \E e \in TypedEntries :
        LET r == remove(db, e.slot, e.key) IN
        /\ Writes(r.db)
        /\ ret' = Call("remove", e.slot, e.key, NoArg, r.res)
        /\ UNCHANGED <<vault, snapVars, evalVars, gwVars>>

TypedPointRead ==
    \E e \in TypedEntries :
        /\ ret' = Call(e.op, e.slot, e.key, NoArg, TypedRead(db, e.op))
        /\ UNCHANGED <<db, vault, snapVars, evalVars, gwVars, lastSnap, dirty>>

NextTyped ==
    \/ InsertUnderTypedKey
    \/ RemoveTypedKey
    \/ TypedPointRead

SpecTyped == Init /\ [][NextTyped]_vars

----------------------------------------------------------------------------
(* Properties of the typed point reads *)

TypedOps == {e.op : e \in TypedEntries}
EntryOf(op) == CHOOSE e \in TypedEntries : e.op = op

\* the key of the read holds bytes that do not parse as the record it expects
Unparseable(op) ==
    LET e == EntryOf(op) IN
    /\ e.key \in DOMAIN db[e.slot]
    /\ db[e.slot][e.key].kind # e.kind

\* what the same read returns once the key is absent
ResultWhenAbsent(op) ==
    LET e == EntryOf(op) IN TypedRead(remove(db, e.slot, e.key).db, op)

\* C23: a typed point read of a key whose stored bytes cannot be parsed returns
\* a result that differs from the one it returns when the key is absent.
C23_ParseFailureSurfaced ==
    (ret.op \in TypedOps /\ Unparseable(ret.op)) => ret.res # ResultWhenAbsent(ret.op)

----------------------------------------------------------------------------
(* AgentMessage and the Soma inbox (slot 8) *)

MaxMessages == 2    \* number of messages held by the Soma tree
PollBatch == 1      \* the batch the heartbeat fetches per agent (25 in heartbeat_tick)

HbAgents == {"A", "B"}
MessageIds == 1..MaxMessages
AUTO_REPLY == "agent_auto_reply"
PayloadTypes == {"task", AUTO_REPLY}

MessageToBytes(msg) == [kind |-> "message", p |-> msg]

\* format!("inbox/{}/{}_{}", target_agent_id, ts, id)
InboxKey(target_agent_id, ts, id) == <<"inbox/", target_agent_id, "/", ts, id>>

\* the clock read by push_agent_message: not before the newest stored message
Latest(d) ==
    LET stamps == {k[4] : k \in DOMAIN d[8]} IN
    IF stamps = {} THEN 1 ELSE CHOOSE t \in stamps : \A u \in stamps : u <= t
Now(d) == {Latest(d), Latest(d) + 1}

\* Uuid::new_v4(): an id no stored message carries (the least one, ids being
\* interchangeable)
FreshIdsIn(d, ids) ==
    LET free == ids \ {k[5] : k \in DOMAIN d[8]} IN
    {i \in free : \A j \in free : i <= j}
FreshIds(d) == FreshIdsIn(d, MessageIds)

\* push_agent_message: insert of a new, unprocessed message into the inbox of the target
push_agent_message(d, mk, from_agent_id, target_agent_id, payload, ts, id) ==
    LET msg == [id |-> id, from_agent_id |-> from_agent_id, target_agent_id |-> target_agent_id,
                payload |-> payload, timestamp_ms |-> ts, is_processed |-> FALSE]
        r == insert(d, mk, 8, InboxKey(target_agent_id, ts, id), MessageToBytes(msg), 1)
    IN [db |-> r.db, res |-> IF r.res.kind = "err" THEN r.res ELSE Ok(id)]

\* scan_keys: the keys of the tree
scan_keys(d, slot_id) == DOMAIN d[tree_name(slot_id)]

\* byte order of the agent ids that occur in the inbox keys
AgentRank(agent_id) == CASE agent_id = "A" -> 1 [] agent_id = "AB" -> 2 [] OTHER -> 3

\* byte order of two inbox keys "inbox/{agent}/{ts}_{uuid}"
InboxBefore(x, y) ==
    IF x[2] # y[2] THEN AgentRank(x[2]) < AgentRank(y[2])
    ELSE x[4] < y[4] \/ (x[4] = y[4] /\ x[5] < y[5])

\* the keys of a set of inbox keys that hold a parseable message, in the order
\* of the scan
RECURSIVE InboxScan(_, _)
InboxScan(d, keys) ==
    IF keys = {} THEN <<>>
    ELSE LET k == CHOOSE x \in keys : \A y \in keys \ {x} : InboxBefore(x, y)
         IN <<[timestamp_ms |-> d[8][k].p.timestamp_ms, key |-> k, msg |-> d[8][k].p]>>
              \o InboxScan(d, keys \ {k})

\* get_agent_messages_with_keys: the (key, message) pairs of the agent, newest
\* first, at most limit of them
get_agent_messages_with_keys(d, target_agent_id, limit) ==
    LET keys == {kv[1] : kv \in {x \in scan_kv(d, 8) :
                    /\ StartsWith(x[1], <<"inbox/", target_agent_id, "/">>)
                    /\ x[2].kind = "message"}}
    IN Take(SortEvents(InboxScan(d, keys)), limit)

----------------------------------------------------------------------------
(* The gateway's heartbeat tick *)

\* the agents discovered from the inbox keys of KB_SOMA
DiscoverAgents(keys) ==
    {k[2] : k \in {x \in keys : Len(x) >= 3 /\ x[1] = "inbox/" /\ x[3] = "/" /\ x[2] # ""}}

\* inbox.into_iter().find(|(_k, m)| !m.is_processed)
FindUnprocessed(inbox) ==
    LET idx == {i \in 1..Len(inbox) : ~inbox[i].msg.is_processed} IN
    IF idx = {} THEN None
    ELSE Some(inbox[CHOOSE i \in idx : \A j \in idx : i <= j])

\* the heartbeat's poll of one agent: the batch, then the first unprocessed message
Poll(d, agent_id) == FindUnprocessed(get_agent_messages_with_keys(d, agent_id, PollBatch))

\* updated = msg.clone(); updated.is_processed = true
Acked(msg) == [msg EXCEPT !.is_processed = TRUE]

\* a reply that does not carry the agent_auto_reply type
AutoReplyUntyped(msg) == [type |-> "task", in_reply_to |-> msg.id]

\* the reply the heartbeat sends back to the sender
AutoReply(msg) == [type |-> AUTO_REPLY, in_reply_to |-> msg.id]

HbStep(from, next) ==
    /\ hb.pc = from
    /\ hb' = next
    /\ UNCHANGED <<vault, ret, snapVars, evalVars, gw, th, orch>>

\* let keys = knowledge.scan_keys(soma_slot)?; .. agents.insert(agent_id)
HbDiscover ==
    /\ HbStep("idle", [NoTick EXCEPT !.pc = "agents",
                                     !.agents = DiscoverAgents(scan_keys(db, 8))])
    /\ UNCHANGED <<db, lastSnap, dirty>>

\* for agent_id in agents { let inbox = ..; if let Some((inbox_key, msg)) = ..find(..)
HbPoll ==
    \E agent_id \in hb.agents :
        LET found == Poll(db, agent_id)
            rest == [hb EXCEPT !.agents = @ \ {agent_id}, !.agent_id = agent_id]
        IN /\ HbStep("agents",
                IF found = None THEN [rest EXCEPT !.pc = "background"]
                ELSE [rest EXCEPT !.pc = IF found.v.msg.payload.type = AUTO_REPLY
                                          THEN "ack_only" ELSE "reply",
                                  !.inbox_key = found.v.key,
                                  !.msg = Some(found.v.msg)])
           /\ UNCHANGED <<db, lastSnap, dirty>>

\* an acknowledgement that consumes the message: the inbox key is removed
HbAckRemoving(from, to) ==
    LET r == remove(db, 8, hb.inbox_key) IN
    /\ HbStep(from, [hb EXCEPT !.pc = to])
    /\ Writes(r.db)

\* knowledge.insert(soma_slot, &inbox_key, &updated.to_bytes())?
HbAckTo(from, to) ==
    LET r == insert(db, vault, 8, hb.inbox_key, MessageToBytes(Acked(hb.msg.v)), 1) IN
    /\ HbStep(from, [hb EXCEPT !.pc = to])
    /\ Writes(r.db)

\* if msg_type == "agent_auto_reply" { ..ACK..; continue; }
HbAckOnly == HbAckTo("ack_only", "agents")

\* knowledge.push_agent_message(&agent_id, &msg.from_agent_id, {"type": "agent_auto_reply", ..})?
HbReplyWith(ids) ==
    \E ts \in Now(db), id \in FreshIdsIn(db, ids) :
        LET r == push_agent_message(db, vault, hb.agent_id, hb.msg.v.from_agent_id,
                                    AutoReply(hb.msg.v), ts, id)
        IN /\ HbStep("reply", [hb EXCEPT !.pc = "ack"])
           /\ Writes(r.db)
HbReply == HbReplyWith(MessageIds)

\* ACK: mark the original inbox message as processed
HbAck == HbAckTo("ack", "reflect")

\* let _ = knowledge.append_chronos_event(&agent_id, &reflection)
HbReflect ==
    LET reflection == [timestamp_ms |-> 100, reflection |-> "Auto-replied to message"]
        r == append_chronos_event(db, vault, <<hb.agent_id>>, reflection, hb.msg.v.id)
    IN /\ HbStep("reflect", [hb EXCEPT !.pc = "agents", !.inbox_key = <<>>, !.msg = None])
       /\ Writes(r.db)

\* no inbox message: the background task of the agent, if KB_PNEUMA holds one
HbBackground ==
    LET bg_key == <<"pneuma/", hb.agent_id, "/background_task">>
        task == get(db, 1, bg_key)
        reflection == [timestamp_ms |-> 100, reflection |-> "Background task ticked"]
        r == append_chronos_event(db, vault, <<hb.agent_id>>, reflection, "bg")
    IN /\ HbStep("background", [hb EXCEPT !.pc = "agents"])
       /\ IF task.v # None THEN Writes(r.db) ELSE UNCHANGED <<db, lastSnap, dirty>>

\* every agent has been visited: Ok(())
HbDone ==
    /\ hb.agents = {}
    /\ HbStep("agents", NoTick)
    /\ UNCHANGED <<db, lastSnap, dirty>>

\* a sender outside the heartbeat (the MessageAgent skill)
PushAgentMessage ==
    \E from_agent_id \in HbAgents, target_agent_id \in HbAgents, type \in PayloadTypes :
      \E ts \in Now(db), id \in FreshIds(db) :
        LET r == push_agent_message(db, vault, from_agent_id, target_agent_id,
                                    [type |-> type, in_reply_to |-> 0], ts, id)
        IN /\ Writes(r.db)
           /\ ret' = Call("push_agent_message", 8, InboxKey(target_agent_id, ts, id),
                          NoArg, r.res)
           /\ UNCHANGED <<vault, snapVars, evalVars, gwVars>>

HeartbeatTick ==
    \/ HbDiscover
    \/ HbPoll
    \/ HbAckOnly
    \/ HbReply
    \/ HbAck
    \/ HbReflect
    \/ HbBackground
    \/ HbDone

NextHeartbeat ==
    \/ PushAgentMessage
    \/ HeartbeatTick

\* the gateway opens the store without a master key: the inbox is not encrypted
InitHeartbeat == Init /\ vault = NoKey

SpecHeartbeat == InitHeartbeat /\ [][NextHeartbeat]_vars

----------------------------------------------------------------------------
(* Properties of the heartbeat *)

Processed(d, k) == d[8][k].p.is_processed

\* C24: a heartbeat step removes no inbox key and leaves every processed message
\* processed; the acknowledging step rewrites the key the poll returned, which
\* is in the inbox, with the stored message and is_processed = true, adds no
\* key and leaves every other entry as it was.
C24_AckRewritesSameKeyOnly ==
    [][hb' # hb =>
          /\ DOMAIN db[8] \subseteq DOMAIN db'[8]
          /\ \A k \in DOMAIN db[8] : Processed(db, k) => Processed(db', k)
          /\ hb.pc \in {"ack_only", "ack"} =>
                /\ hb.inbox_key \in DOMAIN db[8]
                /\ DOMAIN db'[8] = DOMAIN db[8]
                /\ \A k \in DOMAIN db[8] \ {hb.inbox_key} : db'[8][k] = db[8][k]
                /\ db'[8][hb.inbox_key]
                     = MessageToBytes([db[8][hb.inbox_key].p EXCEPT !.is_processed = TRUE])]_vars

\* an acknowledgement has just been written while another message is in the inbox
C24_Witness ==
    /\ hb.pc = "reflect"
    /\ Processed(db, hb.inbox_key)
    /\ \E k \in DOMAIN db[8] : ~Processed(db, k)

\* the keys of the agent's inbox that hold a message not yet processed
UnprocessedKeys(d, agent_id) ==
    {k \in DOMAIN d[8] : /\ StartsWith(k, <<"inbox/", agent_id, "/">>)
                         /\ d[8][k].kind = "message"
                         /\ ~Processed(d, k)}

\* C29: the heartbeat is never stuck on processed messages: when its poll of an
\* agent finds nothing to process, that agent's inbox holds no unprocessed
\* message, whatever the number of messages in the inbox.
C29_PollNeverMissesUnprocessed ==
    [][(hb.pc = "agents" /\ hb'.pc = "background")
          => UnprocessedKeys(db, hb'.agent_id) = {}]_vars

\* the messages the heartbeat has yet to answer
Unanswered(d) ==
    {k \in DOMAIN d[8] : /\ d[8][k].kind = "message"
                         /\ ~Processed(d, k)
                         /\ d[8][k].p.payload.type # AUTO_REPLY}

\* the number of messages the inbox can come to hold without a sender outside
\* the heartbeat: those stored, and one reply for each message yet to be answered
\* whose reply has not been pushed
Potential(d, h) ==
    Cardinality(DOMAIN d[8]) + Cardinality(Unanswered(d)) - (IF h.pc = "ack" THEN 1 ELSE 0)

----------------------------------------------------------------------------
(* Status API and counts *)

\* count: tree.len()
count(d, slot_id) == Cardinality(DOMAIN d[tree_name(slot_id)])

GetAllStatus ==
    /\ ret' = Call("get_all_status", 0, <<>>, NoArg, get_all_status(db, vault))
    /\ UNCHANGED <<db, vault, snapVars, evalVars, gwVars, lastSnap, dirty>>

\* get_all_status and get_full_sovereign_state beside writers of the Soma slot
\* and of the Shadow slot, across restarts with and without the master key
NextStatus ==
    \/ SetSomaState(BusySomaStates)
    \/ InsertShadowAnchorOf(GenericKeys, Anchors, {1})
    \/ Remove(ShadowIds)
    \/ Reopen
    \/ GetAllStatus
    \/ SnapStatus
    \/ SnapSoma
    \/ SnapEthos
    \/ SnapEmsMental
    \/ SnapEmsSoma
    \/ SnapEmsBio
    \/ SnapPeople
    \/ SnapSummary
    \/ SnapTasks
    \/ SnapReturn

SpecStatus == Init /\ [][NextStatus]_vars

Count(ids) ==
    \E slot_id \in ids :
        /\ ret' = Call("count", slot_id, <<>>, NoArg, Ok(count(db, slot_id)))
        /\ UNCHANGED <<db, vault, snapVars, evalVars, gwVars, lastSnap, dirty>>

ScanKeys(ids) ==
    \E slot_id \in ids :
        /\ ret' = Call("scan_keys", slot_id, <<>>, NoArg, Ok(scan_keys(db, slot_id)))
        /\ UNCHANGED <<db, vault, snapVars, evalVars, gwVars, lastSnap, dirty>>

\* Callers of the byte-level API that also count and list the keys
CountIds == {1, SHADOW_SLOT_ID}

NextCount ==
    \/ Insert(CountIds)
    \/ Get(CountIds)
    \/ Remove(CountIds)
    \/ ScanKv(CountIds)
    \/ ScanKeys(CountIds)
    \/ Count(CountIds)

SpecCount == Init /\ [][NextCount]_vars

----------------------------------------------------------------------------
(* Properties of the status API and of the counts *)

LockedError == Some("LOCKED (no master key)")

\* C26: get_all_status returns nine entries, for slots 1..9 in ascending order,
\* each with entry_count = count(slot); the entry of slot 9, and no other,
\* carries the error "LOCKED (no master key)", exactly when the vault is locked;
\* and the snapshot that get_full_sovereign_state returns has shadow_unlocked =
\* false exactly when its slot-9 entry carries that error.
C26_StatusNineEntriesAndLockFlag ==
    /\ ret.op = "get_all_status" =>
          /\ DOMAIN ret.res = 1..9
          /\ \A i \in 1..9 :
                /\ ret.res[i].slot_id = i
                /\ ret.res[i].entry_count = count(db, i)
                /\ (ret.res[i].error = LockedError) <=> (i = 9 /\ ~is_unlocked(vault))
                /\ ret.res[i].error \in {None, LockedError}
    /\ snapPc = "return" =>
          /\ DOMAIN Returned.kb_statuses = 1..9
          /\ (Returned.shadow_unlocked = FALSE) <=> (Returned.kb_statuses[9].error = LockedError)

\* the status of a locked store whose Shadow tree holds an entry
C26_Witness ==
    /\ ret.op = "get_all_status"
    /\ ret.res[9].error = LockedError
    /\ ret.res[9].entry_count = 1

\* count, scan_keys and scan_kv agree on every slot of the trees d
CountsAgree(d) ==
    \A slot_id \in CountIds :
        /\ count(d, slot_id) = Cardinality(scan_keys(d, slot_id))
        /\ count(d, slot_id) = Cardinality(scan_kv(d, slot_id))

\* the bytes the tree holds after insert(slot_id, .., value): the value, or for
\* the Shadow slot a ciphertext of it
HoldsValue(bytes, slot_id, value) ==
    IF slot_id = SHADOW_SLOT_ID THEN bytes.kind = "ct" /\ bytes.p.plain = value
    ELSE bytes = value

\* C27: a successful insert returns the value the key had (None when absent),
\* leaves the key holding the new value, and raises count(slot) by one for a new
\* key and not at all for an update; remove returns the value the key had,
\* leaves get of the key at None, and lowers count(slot) by one for a present
\* key; count(slot) is the number of keys of scan_keys(slot) and the number of
\* pairs of scan_kv(slot) in every state.
C27_UpsertRemoveAndCount ==
    [][LET slot_id == ret'.slot
           key == ret'.key
           before == get(db, slot_id, key).v
           after == get(db', slot_id, key).v
       IN /\ CountsAgree(db) /\ CountsAgree(db')
          /\ (ret'.op = "insert" /\ ret'.res.kind = "ok") =>
                /\ ret'.res.v = before
                /\ after # None /\ HoldsValue(after.v, slot_id, ret'.value)
                /\ count(db', slot_id) = count(db, slot_id) + (IF before = None THEN 1 ELSE 0)
          /\ ret'.op = "remove" =>
                /\ ret'.res = Ok(before)
                /\ after = None
                /\ count(db', slot_id) = count(db, slot_id) - (IF before = None THEN 0 ELSE 1)]_vars

\* an update of a key has returned the value it replaced, beside another key
C27_Witness ==
    /\ ret.op = "insert"
    /\ ret.res.kind = "ok"
    /\ ret.res.v # None
    /\ ret.res.v.v # ret.value
    /\ count(db, ret.slot) = 2

----------------------------------------------------------------------------
(* Orchestrator::dispatch of an AutonomousGoal *)

MaxPlanSteps == 2   \* number of steps of a plan

RegisteredNames == {"DraftResponse", "SalesCloser", "ResearchAudit"}

\* what blueprint.plan_for_intent returns: None, or a plan with its steps
Plans == {None} \cup {Some(steps) : steps \in ListsUpTo(RegisteredNames, MaxPlanSteps)}

\* what each call of skill.execute returns, by position in the plan
Outcomes == [1..MaxPlanSteps -> {"ok", "err"}]

UnknownIntent == [error |-> "unknown intent"]
UnknownSkill(skill_name) == [error |-> "unknown skill", skill |-> skill_name]
SkillError(skill_name) == [error |-> "skill failed", skill |-> skill_name]
SkillsDisabled == [status |-> "skills_disabled"]

\* a loop over the plan that logs a failed step and goes on to the next one
RECURSIVE run_plan_skipping_failures(_, _, _, _, _)
run_plan_skipping_failures(steps, i, registry, outcomes, run) ==
    IF i > Len(steps) THEN run
    ELSE LET skill_name == steps[i] IN
         IF skill_name \notin registry
         THEN run_plan_skipping_failures(steps, i + 1, registry, outcomes, run)
         ELSE LET executed == Append(run.executed, skill_name) IN
              run_plan_skipping_failures(steps, i + 1, registry, outcomes,
                  IF outcomes[i] = "err" THEN [run EXCEPT !.executed = executed]
                  ELSE [run EXCEPT !.executed = executed,
                                   !.steps_trace = Append(@, skill_name)])

\* for skill_name in &plan.steps { registry.get(..)?; skill.execute(..).await?; steps_trace.push(..) }
RECURSIVE run_plan(_, _, _, _, _)
run_plan(steps, i, registry, outcomes, run) ==
    IF i > Len(steps) THEN run
    ELSE LET skill_name == steps[i] IN
         IF skill_name \notin registry
         THEN [run EXCEPT !.error = Some(UnknownSkill(skill_name))]
         ELSE LET executed == Append(run.executed, skill_name) IN
              IF outcomes[i] = "err"
              THEN [run EXCEPT !.executed = executed, !.error = Some(SkillError(skill_name))]
              ELSE run_plan(steps, i + 1, registry, outcomes,
                            [run EXCEPT !.executed = executed,
                                        !.steps_trace = Append(@, skill_name)])

\* dispatch(ctx, Goal::AutonomousGoal { intent, context }): the skills executed
\* for the plan, the trace, whether the audit skill ran, and the result
dispatch_autonomous(skills_enabled, plan, registry, outcomes) ==
    LET none == [executed |-> <<>>, steps_trace |-> <<>>, error |-> None]
        out(run, audited, res) ==
            [executed |-> run.executed, steps_trace |-> run.steps_trace,
             audited |-> audited, res |-> res]
    IN IF ~skills_enabled THEN out(none, FALSE, Ok(SkillsDisabled))
       ELSE IF plan = None THEN out(none, FALSE, Err(UnknownIntent))
       ELSE LET run == run_plan(plan.v, 1, registry, outcomes, none) IN
            IF run.error # None THEN out(run, FALSE, Err(run.error.v))
            ELSE out(run, "ResearchAudit" \in registry,
                     Ok([goal |-> "AutonomousGoal", plan_steps |-> plan.v]))

\* the goals that arrive: the control panel's switch, the plan of the intent,
\* the registered skills and what their executions return
DispatchInputs ==
    [skills_enabled : BOOLEAN, plan : Plans, registry : SUBSET RegisteredNames,
     outcomes : Outcomes]

DispatchAutonomousGoal ==
    /\ ret.op = "goal"
    /\ ret' = Call("dispatch", 0, <<>>, ret.value,
                   dispatch_autonomous(ret.value.skills_enabled, ret.value.plan,
                                       ret.value.registry, ret.value.outcomes))
    /\ UNCHANGED <<db, vault, snapVars, evalVars, gwVars, lastSnap, dirty>>

\* one AutonomousGoal has arrived at an orchestrator
InitOrchestrator ==
    /\ db = EmptyDb
    /\ vault = NoKey
    /\ ret \in {Call("goal", 0, <<>>, input, NoArg) : input \in DispatchInputs}
    /\ snapPc = "idle"
    /\ snap = NoSnap
    /\ ems = NoEms
    /\ lastSnap = None
    /\ dirty = FALSE
    /\ evals = [e \in Evaluators |-> NoEval]
    /\ gw = NoRequest
    /\ hb = NoTick
    /\ th = NoThreads
    /\ orch = NewOrchestrator

SpecOrchestrator == InitOrchestrator /\ [][DispatchAutonomousGoal]_vars

----------------------------------------------------------------------------
(* Properties of the orchestrator *)

\* the positions of the plan whose skill is not registered or returns an error
FailingSteps(steps, registry, outcomes) ==
    {i \in 1..Len(steps) : steps[i] \notin registry \/ outcomes[i] = "err"}

\* the plan of the call is executed in order, each step once, up to its first
\* failing step, whose error is returned; the trace lists the completed steps
PlanRunInOrder(in, out) ==
    LET steps == in.plan.v
        failing == FailingSteps(steps, in.registry, in.outcomes)
    IN IF failing = {}
       THEN /\ out.executed = steps
            /\ out.steps_trace = steps
            /\ out.res.kind = "ok"
       ELSE LET i == CHOOSE x \in failing : \A y \in failing : x <= y IN
            /\ out.steps_trace = SubSeq(steps, 1, i - 1)
            /\ IF steps[i] \in in.registry
               THEN /\ out.executed = SubSeq(steps, 1, i)
                    /\ out.res = Err(SkillError(steps[i]))
               ELSE /\ out.executed = SubSeq(steps, 1, i - 1)
                    /\ out.res = Err(UnknownSkill(steps[i]))

\* C28 as stated: for an intent with a plan dispatch executes the plan in order,
\* each step once, with one trace step per step, stopping at the first step
\* that is not registered or fails and returning its error; an intent without
\* a plan executes no skill.
C28_PlanExecutedInOrder ==
    ret.op = "dispatch" =>
        IF ret.value.plan = None THEN ret.res.executed = <<>> /\ ~ret.res.audited
        ELSE PlanRunInOrder(ret.value, ret.res)

\* C28 amended: the same while skills execution is enabled; while it is
\* disabled dispatch executes no skill and returns the status skills_disabled.
C28_PlanExecutedInOrderWhenEnabled ==
    ret.op = "dispatch" =>
        IF ~ret.value.skills_enabled
        THEN /\ ret.res.executed = <<>> /\ ~ret.res.audited
             /\ ret.res.res = Ok(SkillsDisabled)
        ELSE IF ret.value.plan = None
        THEN /\ ret.res.executed = <<>> /\ ~ret.res.audited
             /\ ret.res.res = Err(UnknownIntent)
        ELSE PlanRunInOrder(ret.value, ret.res)

\* a plan of two steps has stopped at its second step, which failed
C28_Witness ==
    /\ ret.op = "dispatch"
    /\ ret.value.skills_enabled
    /\ ret.value.plan # None
    /\ Len(ret.value.plan.v) = 2
    /\ Len(ret.res.executed) = 2
    /\ Len(ret.res.steps_trace) = 1
    /\ ret.res.res.kind = "err"

----------------------------------------------------------------------------
(* Threads that call insert and get on one key *)

MaxWrites == 2      \* number of inserts the threads make

SharedSlot == 1
SharedKey == <<"note">>

ThStep(t, from, next) ==
    /\ th.threads[t].pc = from
    /\ th' = next
    /\ UNCHANGED <<vault, ret, snapVars, evalVars, gw, hb, orch>>

\* a thread calls insert(slot, key, value)
ThInsertCall(t) ==
    \E value \in RawValues :
        /\ Len(th.applied) +
             Cardinality({u \in Threads : th.threads[u].pc = "insert"}) < MaxWrites
        /\ ThStep(t, "idle", [th EXCEPT !.threads[t] =
                                 [IdleThread EXCEPT !.pc = "insert", !.value = value]])
        /\ UNCHANGED <<db, lastSnap, dirty>>

\* tree.insert(key, value): the write takes effect
ThInsertTree(t) ==
    LET r == insert(db, vault, SharedSlot, SharedKey, th.threads[t].value, 1)
        applied == Append(th.applied, th.threads[t].value)
    IN /\ ThStep(t, "insert",
                 [th EXCEPT !.applied = applied,
                            !.threads[t] = [@ EXCEPT !.pc = "inserted", !.idx = Len(applied),
                                                     !.res = r.res]])
       /\ Writes(r.db)

\* insert returns Ok(prev)
ThInsertReturn(t) ==
    /\ ThStep(t, "inserted", [th EXCEPT !.threads[t] = IdleThread,
                                        !.returned = Max(@, th.threads[t].idx)])
    /\ UNCHANGED <<db, lastSnap, dirty>>

\* a thread calls get(slot, key): the inserts that have returned by now are the
\* first th.returned writes
ThGetCall(t) ==
    /\ ThStep(t, "idle", [th EXCEPT !.threads[t] =
                             [IdleThread EXCEPT !.pc = "get", !.floor = th.returned]])
    /\ UNCHANGED <<db, lastSnap, dirty>>

\* tree.get(key)
ThGetTree(t) ==
    /\ ThStep(t, "get", [th EXCEPT !.threads[t] =
                            [@ EXCEPT !.pc = "got", !.idx = Len(th.applied),
                                      !.res = get(db, SharedSlot, SharedKey)]])
    /\ UNCHANGED <<db, lastSnap, dirty>>

\* get returns
ThGetReturn(t) ==
    /\ ThStep(t, "got", [th EXCEPT !.threads[t] = IdleThread])
    /\ UNCHANGED <<db, lastSnap, dirty>>

NextThreads ==
    \E t \in Threads :
        \/ ThInsertCall(t)
        \/ ThInsertTree(t)
        \/ ThInsertReturn(t)
        \/ ThGetCall(t)
        \/ ThGetTree(t)
        \/ ThGetReturn(t)

\* the callers open the store without a master key: the slot is not encrypted
InitThreads == Init /\ vault = NoKey

SpecThreads == InitThreads /\ [][NextThreads]_vars

----------------------------------------------------------------------------
(* Properties of concurrent single-key writes *)

\* C25: the value a get returns is the value of the write that was the latest to
\* have taken effect when the tree was read, and that write is the latest
\* insert that had returned when the get started, or a later one: never an
\* older value, and None only when no insert had returned.
C25_GetSeesReturnedInsertOrLater ==
    \A t \in Threads :
        th.threads[t].pc = "got" =>
            /\ th.threads[t].idx >= th.threads[t].floor
            /\ th.threads[t].res =
                 Ok(IF th.threads[t].idx = 0 THEN None
                    ELSE Some(th.applied[th.threads[t].idx]))

\* a get that started after an insert had returned has read the value of a
\* later insert, made by another thread while the get was in progress
C25_Witness ==
    \E t \in Threads :
        /\ th.threads[t].pc = "got"
        /\ th.threads[t].floor = 1
        /\ th.threads[t].idx = 2
        /\ th.applied[1] # th.applied[2]

----------------------------------------------------------------------------
(* The heartbeat when a write to the store returns an error *)

MaxInbox == 3       \* number of messages held by the Soma tree in this run

\* knowledge.insert(..)? / knowledge.push_agent_message(..)? returns Err: nothing
\* is written, heartbeat_tick returns the error, heartbeat_loop logs it and
\* waits for the next tick
HbWriteError ==
    /\ hb.pc \in {"ack_only", "reply", "ack"}
    /\ hb' = NoTick
    /\ UNCHANGED <<db, lastSnap, dirty, vault, ret, snapVars, evalVars, gw, th, orch>>

\* the one message sent to the inbox of A by B
PushFirstMessage ==
    LET r == push_agent_message(db, vault, "B", "A", [type |-> "task", in_reply_to |-> 0], 1, 1)
    IN /\ DOMAIN db[8] = {}
       /\ Writes(r.db)
       /\ ret' = Call("push_agent_message", 8, InboxKey("A", 1, 1), NoArg, r.res)
       /\ UNCHANGED <<vault, snapVars, evalVars, gwVars>>

NextHeartbeatErrors ==
    \/ PushFirstMessage
    \/ HbDiscover
    \/ HbPoll
    \/ HbAckOnly
    \/ HbReplyWith(1..MaxInbox)
    \/ HbAck
    \/ HbReflect
    \/ HbBackground
    \/ HbDone
    \/ HbWriteError

SpecHeartbeatErrors == InitHeartbeat /\ [][NextHeartbeatErrors]_vars

----------------------------------------------------------------------------
(* Properties of the heartbeat under write errors *)

\* the auto-replies held by the inboxes that answer the message with this id
RepliesTo(d, id) ==
    {k \in DOMAIN d[8] : /\ d[8][k].kind = "message"
                         /\ d[8][k].p.payload.type = AUTO_REPLY
                         /\ d[8][k].p.payload.in_reply_to = id}

\* C31: for every inbox message that is not an agent_auto_reply the inboxes hold
\* at most one agent_auto_reply whose in_reply_to is the message's id, also
\* after ticks that were abandoned because a store write returned an error.
C31_AtMostOneReplyPerMessage ==
    \A k \in DOMAIN db[8] :
        (db[8][k].kind = "message" /\ db[8][k].p.payload.type # AUTO_REPLY)
            => Cardinality(RepliesTo(db, db[8][k].p.id)) <= 1

----------------------------------------------------------------------------
(* Orchestrator: the control state and dispatch of every kind of goal *)

OrchestratorSkills ==
    RegisteredNames \cup {"KnowledgeQuery", "LeadCapture", "ModelRouter", "CommunityScraper"}

\* bit i of the u8 v
Bit(v, i) == (v \div 2^i) % 2 = 1
\* v | (1u8 << i), v & !(1u8 << i)
SetBit(v, i) == IF Bit(v, i) THEN v ELSE v + 2^i
ClearBit(v, i) == IF Bit(v, i) THEN v - 2^i ELSE v

\* for (i, &on) in kb_states.iter().enumerate().take(8) { if on { mask |= 1u8 << i } }
RECURSIVE MaskOf(_, _)
MaskOf(kb_states, i) ==
    IF i > Len(kb_states) \/ i > 8 THEN 0
    ELSE (IF kb_states[i] THEN 2^(i - 1) ELSE 0) + MaskOf(kb_states, i + 1)

pagi_apply_control_signal(o, msg) ==
    CASE msg.kind = "KbState" ->
           IF msg.index < 8
           THEN [o EXCEPT !.active_kbs = IF msg.active THEN SetBit(@, msg.index)
                                          ELSE ClearBit(@, msg.index)]
           ELSE o
      [] msg.kind = "SkillsEnabled" -> [o EXCEPT !.skills_enabled = msg.enabled]
      [] msg.kind = "MemoryWeights" ->
           [o EXCEPT !.memory_weights = <<msg.short_term, msg.long_term>>]
      [] msg.kind = "FullState" ->
           [o EXCEPT !.active_kbs = MaskOf(msg.kb_states, 1),
                     !.skills_enabled = msg.skills_enabled,
                     !.memory_weights = <<msg.short_term, msg.long_term>>]

\* a KB check that takes every slot for active
pagi_kb_active_always(o, slot_id) == TRUE

pagi_kb_active(o, slot_id) ==
    IF ~(slot_id \in 1..8) THEN FALSE
    ELSE Bit(o.active_kbs, slot_id - 1)

KbDisabled(slot_id) == [status |-> "kb_disabled", slot_id |-> slot_id]
Dispatched == [status |-> "dispatched"]

\* registry.get(name).ok_or_else(|| UnknownSkill(name))?; skill.execute(ctx, payload).await
execute_skill(name, registry, outcome) ==
    IF name \notin registry THEN [executed |-> <<>>, res |-> Err(UnknownSkill(name))]
    ELSE [executed |-> <<name>>,
          res |-> IF outcome = "err" THEN Err(SkillError(name))
                  ELSE Ok([status |-> "ok", skill |-> name])]

\* match goal { .. }: the skills executed, in order, and the result
route_goal(o, goal, registry, outcomes) ==
    LET none == [executed |-> <<>>, steps_trace |-> <<>>, error |-> None] IN
         CASE goal.kind = "ExecuteSkill" -> execute_skill(goal.name, registry, outcomes[1])
           [] goal.kind = "QueryKnowledge" ->
                IF ~pagi_kb_active(o, goal.slot_id)
                THEN [executed |-> <<>>, res |-> Ok(KbDisabled(goal.slot_id))]
                ELSE execute_skill("KnowledgeQuery", registry, outcomes[1])
           [] goal.kind = "IngestData" -> execute_skill("LeadCapture", registry, outcomes[1])
           [] goal.kind = "AssembleContext" ->
                execute_skill("DraftResponse", registry, outcomes[1])
           [] goal.kind = "GenerateFinalResponse" ->
                LET run == run_plan(<<"DraftResponse", "ModelRouter">>, 1, registry,
                                    outcomes, none)
                IN [executed |-> run.executed,
                    res |-> IF run.error # None THEN Err(run.error.v)
                            ELSE Ok([status |-> "ok", skill |-> "ModelRouter"])]
           [] goal.kind = "AutonomousGoal" ->
                LET out == dispatch_autonomous(TRUE, goal.plan, registry, outcomes)
                IN [executed |-> IF out.audited THEN Append(out.executed, "ResearchAudit")
                                 ELSE out.executed,
                    res |-> out.res]
           [] goal.kind = "UpdateKnowledgeSlot" ->
                IF ~pagi_kb_active(o, goal.slot_id)
                THEN [executed |-> <<>>, res |-> Ok(KbDisabled(goal.slot_id))]
                ELSE execute_skill("CommunityScraper", registry, outcomes[1])
           [] OTHER -> [executed |-> <<>>, res |-> Ok(Dispatched)]

\* a dispatch that does not look at the control panel's switch
dispatch_ignoring_switch(o, goal, registry, outcomes) ==
    route_goal(o, goal, registry, outcomes)

\* Orchestrator::dispatch: the switch of the control panel, then the goal
dispatch(o, goal, registry, outcomes) ==
    IF ~o.skills_enabled THEN [executed |-> <<>>, res |-> Ok(SkillsDisabled)]
    ELSE route_goal(o, goal, registry, outcomes)

\* the slot ids that goals address, in and out of 1..8
GoalSlots == {0, 1, 2, 8, 9}

OrchGoals ==
    {[kind |-> "ExecuteSkill", name |-> n, slot_id |-> 0, plan |-> None] :
        n \in {"ModelRouter", "SalesCloser"}}
    \cup {[kind |-> k, name |-> "", slot_id |-> i, plan |-> None] :
             k \in {"QueryKnowledge", "UpdateKnowledgeSlot"}, i \in GoalSlots}
    \cup {[kind |-> "AutonomousGoal", name |-> "", slot_id |-> 0, plan |-> p] :
             p \in {None, Some(<<"DraftResponse", "SalesCloser">>)}}
    \cup {[kind |-> k, name |-> "", slot_id |-> 0, plan |-> None] :
             k \in {"IngestData", "AssembleContext", "GenerateFinalResponse",
                    "MemoryOp", "Custom"}}

\* the skills registered with the orchestrator: all of them, or all but the
\* Studio's sales skills
Registries == {OrchestratorSkills, OrchestratorSkills \ {"SalesCloser", "LeadCapture"}}

AllOk == [i \in 1..MaxPlanSteps |-> "ok"]

Weights == {<<7, 3>>, <<5, 5>>}

\* kb_states of a FullState message: a Vec<bool> of any length
KbStateLists ==
    {<<>>, <<FALSE, TRUE>>, [i \in 1..8 |-> TRUE], [i \in 1..9 |-> i # 1]}

ControlMessages ==
    {[kind |-> "KbState", index |-> i, active |-> a] : i \in {0, 1, 7, 8, 9}, a \in BOOLEAN}
    \cup {[kind |-> "SkillsEnabled", enabled |-> e] : e \in BOOLEAN}
    \cup {[kind |-> "MemoryWeights", short_term |-> w[1], long_term |-> w[2]] : w \in Weights}
    \cup {[kind |-> "FullState", kb_states |-> l, skills_enabled |-> e,
           short_term |-> 5, long_term |-> 5] : l \in KbStateLists, e \in BOOLEAN}

\* orchestrator.pagi_apply_control_signal(msg)
ApplyControlSignal ==
    \E msg \in ControlMessages :
        /\ orch' = pagi_apply_control_signal(orch, msg)
        /\ ret' = Call("control", 0, <<>>, msg, NoArg)
        /\ UNCHANGED <<db, vault, snapVars, evalVars, gw, hb, th, lastSnap, dirty>>

\* orchestrator.dispatch(&ctx, goal).await
Dispatch ==
    \E goal \in OrchGoals, registry \in Registries :
        /\ ret' = Call("dispatch", 0, <<>>, [goal |-> goal, registry |-> registry],
                       dispatch(orch, goal, registry, AllOk))
        /\ UNCHANGED <<db, vault, snapVars, evalVars, gwVars, lastSnap, dirty>>

NextControl ==
    \/ ApplyControlSignal
    \/ Dispatch

SpecControl == InitHeartbeat /\ [][NextControl]_vars

----------------------------------------------------------------------------
(* Properties of the orchestrator's control state *)

\* the skills a goal of this kind is routed to when every KB is active
RoutedTo(goal) ==
    CASE goal.kind = "ExecuteSkill" -> <<goal.name>>
      [] goal.kind = "QueryKnowledge" -> <<"KnowledgeQuery">>
      [] goal.kind = "IngestData" -> <<"LeadCapture">>
      [] goal.kind = "AssembleContext" -> <<"DraftResponse">>
      [] goal.kind = "GenerateFinalResponse" -> <<"DraftResponse", "ModelRouter">>
      [] goal.kind = "AutonomousGoal" ->
           IF goal.plan = None THEN <<>> ELSE Append(goal.plan.v, "ResearchAudit")
      [] goal.kind = "UpdateKnowledgeSlot" -> <<"CommunityScraper">>
      [] OTHER -> <<>>

\* the goals that address a KB slot
AddressesKb(goal) == goal.kind \in {"QueryKnowledge", "UpdateKnowledgeSlot"}

\* C33: a dispatch made while skills_enabled is false invokes no skill and
\* returns status skills_disabled, whatever the goal; a dispatch made while it
\* is true never returns skills_disabled and, every skill of the goal being
\* registered and its KB active, executes the skills of the goal. The flag
\* is what the latest SkillsEnabled or FullState message set it to, and no
\* other step changes it.
C33_SkillsSwitchGatesDispatch ==
    [][/\ ret'.op = "dispatch" =>
            IF ~orch.skills_enabled
            THEN ret'.res = [executed |-> <<>>, res |-> Ok(SkillsDisabled)]
            ELSE /\ ret'.res.res # Ok(SkillsDisabled)
                 /\ (/\ \A i \in 1..Len(RoutedTo(ret'.value.goal)) :
                           RoutedTo(ret'.value.goal)[i] \in ret'.value.registry
                     /\ AddressesKb(ret'.value.goal)
                           => pagi_kb_active(orch, ret'.value.goal.slot_id))
                      => ret'.res.executed = RoutedTo(ret'.value.goal)
       /\ (ret'.op = "control" /\ ret'.value.kind = "SkillsEnabled")
            => orch'.skills_enabled = ret'.value.enabled
       /\ (ret'.op = "control" /\ ret'.value.kind = "FullState")
            => orch'.skills_enabled = ret'.value.skills_enabled
       /\ orch'.skills_enabled # orch.skills_enabled
            => (ret'.op = "control" /\ ret'.value.kind \in {"SkillsEnabled", "FullState"})]_vars

\* skills have been switched off and a goal naming a registered skill has been
\* refused with skills_disabled
C33_Witness ==
    /\ ret.op = "dispatch"
    /\ ~orch.skills_enabled
    /\ ret.value.goal.kind = "ExecuteSkill"
    /\ ret.value.goal.name \in ret.value.registry
    /\ ret.res = [executed |-> <<>>, res |-> Ok(SkillsDisabled)]

\* the KbState message changes bit index of active_kbs when index < 8 and
\* nothing else; with index >= 8 it changes nothing
KbStateChangesOneBit ==
    (ret'.op = "control" /\ ret'.value.kind = "KbState") =>
        IF ret'.value.index < 8
        THEN /\ Bit(orch'.active_kbs, ret'.value.index) = ret'.value.active
             /\ \A i \in 0..7 \ {ret'.value.index} :
                   Bit(orch'.active_kbs, i) = Bit(orch.active_kbs, i)
             /\ orch'.active_kbs \in 0..255
             /\ orch' = [orch EXCEPT !.active_kbs = orch'.active_kbs]
        ELSE orch' = orch

\* the slot the goal addresses is in 1..8 and its bit is set
SlotActive(o, goal) ==
    /\ goal.slot_id \in 1..8
    /\ Bit(o.active_kbs, goal.slot_id - 1)

\* C34 as stated: a QueryKnowledge or UpdateKnowledgeSlot goal invokes a skill
\* only if its slot is in 1..8 with its bit set in active_kbs, and otherwise
\* returns kb_disabled without invoking a skill; KbState changes one bit only.
C34_KbGateAndKbState ==
    [][/\ (ret'.op = "dispatch" /\ AddressesKb(ret'.value.goal)) =>
            /\ ret'.res.executed # <<>> => SlotActive(orch, ret'.value.goal)
            /\ ~SlotActive(orch, ret'.value.goal) =>
                  ret'.res = [executed |-> <<>>,
                              res |-> Ok(KbDisabled(ret'.value.goal.slot_id))]
       /\ KbStateChangesOneBit]_vars

\* C34 amended: the same while skills execution is enabled; while it is
\* disabled the goal invokes no skill and returns skills_disabled, whatever
\* its slot.
C34_KbGateWhenEnabledAndKbState ==
    [][/\ (ret'.op = "dispatch" /\ AddressesKb(ret'.value.goal)) =>
            /\ ret'.res.executed # <<>> => SlotActive(orch, ret'.value.goal)
            /\ (orch.skills_enabled /\ ~SlotActive(orch, ret'.value.goal)) =>
                  ret'.res = [executed |-> <<>>,
                              res |-> Ok(KbDisabled(ret'.value.goal.slot_id))]
            /\ ~orch.skills_enabled =>
                  ret'.res = [executed |-> <<>>, res |-> Ok(SkillsDisabled)]
       /\ KbStateChangesOneBit]_vars

\* KB-2 has been switched off by a KbState message while KB-8 is active, and a
\* query of slot 2 has been answered kb_disabled
C34_Witness ==
    /\ ret.op = "dispatch"
    /\ ret.value.goal.kind = "QueryKnowledge"
    /\ ret.value.goal.slot_id = 2
    /\ orch.skills_enabled
    /\ ~Bit(orch.active_kbs, 1)
    /\ Bit(orch.active_kbs, 7)
    /\ ret.res.res = Ok(KbDisabled(2))

----------------------------------------------------------------------------
(* The execute handler: the ReflectShadow guard and the skills a request runs *)

MaxKeyLen == 2      \* number of characters of a session key

KeyChars == {"k", " ", "\n"}
RawKeys == ListsUpTo(KeyChars, MaxKeyLen)

\* s.trim().replace([' ', '\n'], "")
TrimReplace(s) == SelectSeq(s, LAMBDA ch : ch \notin {" ", "\n"})

\* the skills main() registers with the gateway's orchestrator
GatewayRegistry ==
    {"ModelRouter", "BioGateSync", "EthosSync", "OikosTaskGovernor", "ReflectShadow"}

\* what config/blueprint.json holds for the intent of an AutonomousGoal
GatewayPlans == {None, Some(<<"ModelRouter">>), Some(<<"ModelRouter", "ReflectShadow">>)}

\* the requests: an ExecuteSkill goal with a payload that has a session_key or
\* none, or an AutonomousGoal whose context has a session_key or none
GateGoals ==
    {[kind |-> "ExecuteSkill", name |-> n, session_key |-> k] :
        n \in {"ReflectShadow", "ModelRouter"}, k \in {None} \cup {Some(r) : r \in RawKeys}}
    \cup {[kind |-> "AutonomousGoal", name |-> "", session_key |-> k] :
             k \in {None, Some(<<"k">>)}}

\* PAGI_SHADOW_KEY, the blueprint's plan for the intent, and whether the stored
\* Ethos policy blocks the skill
GateInputs ==
    [goal : GateGoals, shadow_key : {None} \cup {Some(r) : r \in RawKeys},
     plan : GatewayPlans, ethos_blocks : BOOLEAN]

\* execute: the guard, the Ethos check and the dispatch of the goal
execute(in) ==
    LET client_key == IF in.goal.session_key = None THEN None
                      ELSE Some(TrimReplace(in.goal.session_key.v))
        env_key == IF in.shadow_key = None THEN None ELSE Some(TrimReplace(in.shadow_key.v))
        goal == [kind |-> in.goal.kind, name |-> in.goal.name, slot_id |-> 0,
                 plan |-> IF in.goal.kind = "AutonomousGoal" THEN in.plan ELSE None]
        dispatched == dispatch(NewOrchestrator, goal, GatewayRegistry, AllOk)
    IN IF in.goal.kind = "ExecuteSkill"
       THEN IF in.goal.name = "ReflectShadow" /\ (client_key # env_key \/ env_key = None)
            THEN [executed |-> <<>>,
                  res |-> Err("ReflectShadow requires valid session_key")]
            ELSE IF in.ethos_blocks
            THEN [executed |-> <<>>, res |-> Err("policy_violation")]
            ELSE dispatched
       ELSE dispatched

Execute ==
    /\ ret.op = "request"
    /\ ret' = Call("execute", 0, <<>>, ret.value, execute(ret.value))
    /\ UNCHANGED <<db, vault, snapVars, evalVars, gwVars, lastSnap, dirty>>

\* one request has arrived at the gateway
InitShadowGate ==
    /\ db = EmptyDb
    /\ vault = NoKey
    /\ ret \in {Call("request", 0, <<>>, in, NoArg) : in \in GateInputs}
    /\ snapPc = "idle"
    /\ snap = NoSnap
    /\ ems = NoEms
    /\ lastSnap = None
    /\ dirty = FALSE
    /\ evals = [e \in Evaluators |-> NoEval]
    /\ gw = NoRequest
    /\ hb = NoTick
    /\ th = NoThreads
    /\ orch = NewOrchestrator

SpecShadowGate == InitShadowGate /\ [][Execute]_vars

----------------------------------------------------------------------------
(* Properties of the ReflectShadow guard *)

Executes(out, name) == \E i \in 1..Len(out.executed) : out.executed[i] = name

\* C32: whatever the goal, ReflectShadow is executed only when PAGI_SHADOW_KEY
\* is set and the request carries a session_key equal to it.
C32_ReflectShadowNeedsSessionKey ==
    (ret.op = "execute" /\ Executes(ret.res, "ReflectShadow")) =>
        /\ ret.value.shadow_key # None
        /\ ret.value.goal.session_key = ret.value.shadow_key

----------------------------------------------------------------------------
(* The Studio UI's control API and the orchestrator's control listener *)

ChannelCapacity == 2    \* capacity of the bounded control-panel channel
MaxControl == 3         \* number of control requests the API receives

\* the messages the control panel posts in this run
PostedMessages ==
    {[kind |-> "SkillsEnabled", enabled |-> FALSE],
     [kind |-> "SkillsEnabled", enabled |-> TRUE],
     [kind |-> "KbState", index |-> 0, active |-> FALSE]}

\* Sender::try_send on the bounded channel: Err(Full) when the channel is at capacity
try_send(channel, msg) ==
    IF Len(channel) < ChannelCapacity
    THEN [channel |-> Append(channel, msg), res |-> Ok(Unit)]
    ELSE [channel |-> channel, res |-> Err("Full")]

\* api_control: let _ = control_tx.try_send(msg); Json({"status": "ok"})
ApiControl ==
    \E msg \in PostedMessages :
        LET sent == try_send(orch.channel, msg) IN
        /\ Len(orch.accepted) < MaxControl
        /\ orch' = [orch EXCEPT !.channel = sent.channel, !.accepted = Append(@, msg)]
        /\ ret' = Call("api_control", 0, <<>>, msg, [status |-> "ok"])
        /\ UNCHANGED <<db, vault, snapVars, evalVars, gw, hb, th, lastSnap, dirty>>

\* spawn_control_listener: while let Some(msg) = receiver.recv().await { apply(msg) }
ControlListener ==
    /\ orch.channel # <<>>
    /\ orch' = [pagi_apply_control_signal(orch, Head(orch.channel))
                   EXCEPT !.channel = Tail(orch.channel),
                          !.applied = Append(orch.applied, Head(orch.channel))]
    /\ UNCHANGED <<db, vault, ret, snapVars, evalVars, gw, hb, th, lastSnap, dirty>>

NextControlChannel ==
    \/ ApiControl
    \/ ControlListener

SpecControlChannel == InitHeartbeat /\ [][NextControlChannel]_vars

----------------------------------------------------------------------------
(* Properties of the control channel *)

\* C35: every control message that api_control has answered "ok" has been
\* applied by the listener or waits in the channel to be applied, and the
\* messages applied and waiting are the accepted ones in the order of their
\* acceptance (the listener applies only what the channel delivers, so a
\* message for which this fails is never applied).
C35_AcceptedAreAppliedInOrder ==
    orch.accepted = orch.applied \o orch.channel

----------------------------------------------------------------------------
(* Removal of a governed task while evaluate_and_persist_tasks is running *)

RemoveGovernedTask ==
    \E task_id \in TaskIds :
        LET r == remove_governed_task(db, task_id) IN
        /\ Writes(r.db)
        /\ ret' = Call("remove_governed_task", 2, TaskKey(task_id), task_id, r.res)
        /\ UNCHANGED <<vault, snapVars, evalVars, gwVars>>

\* one thread evaluates while another removes tasks; callers store tasks
\* while no evaluation is running
NextRemoval ==
    \/ QuietSetGovernedTask(GovernedTasks)
    \/ RemoveGovernedTask
    \/ EvalGovernor(1)
    \/ EvalList(1)
    \/ EvalPersistTask(1)
    \/ EvalPersistSummary(1)
    \/ EvalForget(1)

SpecRemoval == InitHeartbeat /\ [][NextRemoval]_vars

----------------------------------------------------------------------------
(* Properties of the removal of governed tasks *)

\* C36: while the latest completed call of a caller is a remove_governed_task(id)
\* that returned true (no caller has stored a task since), get_governed_task(id)
\* returns None, also when an evaluate_and_persist_tasks call was in progress
\* during the removal and goes on after it.
C36_RemovedTaskStaysRemoved ==
    (ret.op = "remove_governed_task" /\ ret.res = Ok(TRUE))
        => get_governed_task(db, ret.value) = None

----------------------------------------------------------------------------
(* get_agent_messages beside get_agent_messages_with_keys *)

\* agent ids of which one is the beginning of another
InboxAgents == {"A", "AB"}

\* str::starts_with on the agent ids of this run
StrStartsWith(s, prefix) == s = prefix \/ (s = "AB" /\ prefix = "A")

\* get_agent_messages: the messages under the keys that start with
\* format!("inbox/{}", target_agent_id), newest first, at most limit of them
get_agent_messages(d, target_agent_id, limit) ==
    LET keys == {kv[1] : kv \in {x \in scan_kv(d, 8) :
                    /\ x[1][1] = "inbox/"
                    /\ StrStartsWith(x[1][2], target_agent_id)
                    /\ x[2].kind = "message"}}
        messages == Take(SortEvents(InboxScan(d, keys)), limit)
    IN [i \in 1..Len(messages) |-> messages[i].msg]

\* the MessageAgent skill sends to one of the agents
PushToInbox ==
    \E target_agent_id \in InboxAgents, ts \in Now(db), id \in FreshIds(db) :
        LET r == push_agent_message(db, vault, "B", target_agent_id,
                                    [type |-> "task", in_reply_to |-> 0], ts, id)
        IN /\ Writes(r.db)
           /\ ret' = Call("push_agent_message", 8, InboxKey(target_agent_id, ts, id),
                          NoArg, r.res)
           /\ UNCHANGED <<vault, snapVars, evalVars, gwVars>>

\* both reads of one inbox, with nothing written between them
GetAgentMessages ==
    \E target_agent_id \in InboxAgents, limit \in 0..MaxMessages :
        /\ ret' = Call("get_agent_messages", 8, <<target_agent_id>>, limit,
                       [messages |-> get_agent_messages(db, target_agent_id, limit),
                        with_keys |-> get_agent_messages_with_keys(db, target_agent_id, limit)])
        /\ UNCHANGED <<db, vault, snapVars, evalVars, gwVars, lastSnap, dirty>>

NextInbox ==
    \/ PushToInbox
    \/ GetAgentMessages

SpecInbox == InitHeartbeat /\ [][NextInbox]_vars

----------------------------------------------------------------------------
(* Properties of the inbox reads *)

\* C37: get_agent_messages returns the messages get_agent_messages_with_keys
\* returns for the same agent and limit, in the same order, and both return
\* only messages addressed to that agent, newest first.
C37_MessagesMatchMessagesWithKeys ==
    ret.op = "get_agent_messages" =>
        /\ ret.res.messages = [i \in 1..Len(ret.res.with_keys) |-> ret.res.with_keys[i].msg]
        /\ \A i \in 1..Len(ret.res.messages) :
              /\ ret.res.messages[i].target_agent_id = ret.key[1]
              /\ \A j \in i..Len(ret.res.messages) :
                    ret.res.messages[i].timestamp_ms >= ret.res.messages[j].timestamp_ms
        /\ \A i \in 1..Len(ret.res.with_keys) :
              ret.res.with_keys[i].msg.target_agent_id = ret.key[1]

----------------------------------------------------------------------------
(* get_effective_mental_state as an operation on the store *)

\* a call that stores the adjusted state back under mental_state/current
effective_mental_state_persisted(d, mk) ==
    LET mental == get_effective_mental_state(d) IN
    [db |-> set_mental_state(d, mk, mental).db, res |-> Ok(mental)]

\* get_effective_mental_state: three reads, the merge on a local copy, no write
effective_mental_state_call(d, mk) ==
    [db |-> d, res |-> Ok(get_effective_mental_state(d))]

CallEffectiveMentalState ==
    LET r == effective_mental_state_call(db, vault) IN
    /\ Writes(r.db)
    /\ ret' = Call("get_effective_mental_state", 7, MENTAL_STATE_KEY, NoArg, r.res)
    /\ UNCHANGED <<vault, snapVars, evalVars, gwVars>>

NextEffective ==
    \/ SetMentalState(MentalStates)
    \/ SetSomaState(SomaStates)
    \/ SetBiometricState(BiometricStates)
    \/ CallEffectiveMentalState

SpecEffective == InitHeartbeat /\ [][NextEffective]_vars

----------------------------------------------------------------------------
(* Properties of get_effective_mental_state as an operation *)

\* C38: a call of get_effective_mental_state leaves every tree as it was (the
\* stored mental, soma and biometric states among them), and a call that
\* follows another with no write in between returns what that one returned.
C38_EffectiveStateWritesNothing ==
    [][ret'.op = "get_effective_mental_state" =>
          /\ db' = db
          /\ ret.op = "get_effective_mental_state" => ret'.res = ret.res]_vars

\* the call has returned a burnout risk raised by the BioGate increment over a
\* stored, non-zero burnout risk, and the stored state is as it was set
C38_Witness ==
    /\ ret.op = "get_effective_mental_state"
    /\ needs_biogate_adjustment(get_soma_state(db))
    /\ get_mental_state(db).burnout_risk > 0
    /\ ret.res.v.burnout_risk = get_mental_state(db).burnout_risk + BURNOUT_RISK_INCREMENT

----------------------------------------------------------------------------
(* Callers that pass slot ids below and above the range *)

ClampIds == {0, 1, 2, 10}

NextClamp ==
    \/ Insert(ClampIds)
    \/ Get(ClampIds)
    \/ Remove(ClampIds)

SpecClamp == Init /\ [][NextClamp]_vars

----------------------------------------------------------------------------
(* Properties of the clamped slot id *)

\* C39: after insert(s, k, v) with s outside 1..9, get(1, k) returns v and
\* get(s, k) returns v as well, and partitions 2..9 are as they were.
C39_OutOfRangeInsertLandsInPartition1 ==
    [][(ret'.op = "insert" /\ OutOfRange(ret'.slot))
       => /\ get(db', 1, ret'.key) = Ok(Some(ret'.value))
          /\ get(db', ret'.slot, ret'.key) = Ok(Some(ret'.value))
          /\ \A s \in 2..9 : db'[s] = db[s]]_vars

\* an insert with slot id 0 whose value get(1, k) and get(0, k) return, while
\* partition 2 holds an entry
C39_Witness ==
    /\ ret.op = "insert" /\ ret.slot = 0
    /\ get(db, 1, ret.key) = Ok(Some(ret.value))
    /\ get(db, 0, ret.key) = Ok(Some(ret.value))
    /\ DOMAIN db[2] # {}

====
